---------------------------- MODULE Spec2Model ----------------------------
(***************************************************************************)
(* Model of the image-color-grading rendering pipeline: the pass schedule  *)
(* that WebGLBackend.drawFrame and WebGPUBackend.drawFrame submit for a     *)
(* settings record, and the ImageColorGrading processor that selects,      *)
(* initialises and drives one of the two backends.                         *)
(*                                                                         *)
(* Numbers.  A settings value is an integer number of hundredths of a      *)
(* slider unit (50 is 0.5, 51 is 0.51, 10000 is 100).  Every number that   *)
(* is uploaded to a shader is an exact fraction <<numerator, denominator>>.*)
(***************************************************************************)
EXTENDS Integers, Sequences, FiniteSets, TLC

Abs(x) == IF x < 0 THEN 0 - x ELSE x

Min(a, b) == IF a < b THEN a ELSE b

Max(a, b) == IF a > b THEN a ELSE b

\* A settings value (hundredths) as the number the code reads.
Real(v) == <<v, 100>>

Num(n) == <<n, 1>>

RECURSIVE Gcd(_, _)
Gcd(a, b) == IF b = 0 THEN a ELSE Gcd(b, a % b)

Lcm(a, b) == (a \div Gcd(a, b)) * b

\* The same fraction in lowest terms (denominators are positive).
Norm(f) ==
  LET g == Gcd(Abs(f[1]), f[2])
  IN <<f[1] \div g, f[2] \div g>>

FracDiv(f, d) == Norm(<<f[1], f[2] * d>>)

FracEq(f, g) == f[1] * g[2] = g[1] * f[2]

(***************************************************************************)
(* Settings                                                                *)
(***************************************************************************)
FieldNames ==
  {"vibrance", "saturation", "temperature", "tint", "hue", "brightness",
   "exposure", "contrast", "blacks", "whites", "highlights", "shadows",
   "dehaze", "bloom", "glamour", "clarity", "sharpen", "smooth", "blur",
   "vignette", "grain"}

defaultSettings == [f \in FieldNames |-> 0]

\* A merge that starts from the defaults instead of the current settings.
MergeOntoDefaults(s, p) ==
  [f \in FieldNames |-> IF f \in DOMAIN p THEN p[f] ELSE defaultSettings[f]]

\* { ...settings, ...newSettings }: the fields of p override those of s.
Merge(s, p) == [f \in FieldNames |-> IF f \in DOMAIN p THEN p[f] ELSE s[f]]

(***************************************************************************)
(* utils/common.ts: colour matrices and the blacks tone curve              *)
(***************************************************************************)
\* Math.max(-100, Math.min(100, amount)) / 100
ClampAmount(v) == FracDiv(Real(Max(-10000, Min(10000, v))), 100)

\* Math.min(1, Math.max(0, value)) on a fraction with a positive denominator
clamp01(f) == IF f[1] < 0 THEN <<0, 1>> ELSE IF f[1] > f[2] THEN <<1, 1>> ELSE f

\* a + b, a - b and a * b on fractions, over the least common denominator
FracAdd(f, g) ==
  LET d == Lcm(f[2], g[2])
  IN Norm(<<f[1] * (d \div f[2]) + g[1] * (d \div g[2]), d>>)

FracSub(f, g) == FracAdd(f, <<0 - g[1], g[2]>>)

FracMul(f, g) == Norm(<<f[1] * g[1], f[2] * g[2]>>)

buildContrastMatrix(v) ==
  LET t == ClampAmount(v)
      scale == FracAdd(Num(1), t)
      offset == FracMul(<<1, 2>>, FracSub(Num(1), scale))
      z == Num(0)
  IN <<scale, z, z, z, offset,
       z, scale, z, z, offset,
       z, z, scale, z, offset,
       z, z, z, Num(1), z>>

\* A saturation matrix whose diagonal adds 1 where the code adds scale.
buildSaturationMatrixUnitDiagonal(v) ==
  LET t == ClampAmount(v)
      scale == FracAdd(Num(1), t)
      lumR == <<299, 1000>>
      lumG == <<587, 1000>>
      lumB == <<114, 1000>>
      inv == FracSub(Num(1), scale)
      z == Num(0)
  IN <<FracAdd(FracMul(inv, lumR), Num(1)), FracMul(inv, lumG), FracMul(inv, lumB), z, z,
       FracMul(inv, lumR), FracAdd(FracMul(inv, lumG), Num(1)), FracMul(inv, lumB), z, z,
       FracMul(inv, lumR), FracMul(inv, lumG), FracAdd(FracMul(inv, lumB), Num(1)), z, z,
       z, z, z, Num(1), z>>

buildSaturationMatrix(v) ==
  LET t == ClampAmount(v)
      scale == FracAdd(Num(1), t)
      lumR == <<299, 1000>>
      lumG == <<587, 1000>>
      lumB == <<114, 1000>>
      inv == FracSub(Num(1), scale)
      z == Num(0)
  IN <<FracAdd(FracMul(inv, lumR), scale), FracMul(inv, lumG), FracMul(inv, lumB), z, z,
       FracMul(inv, lumR), FracAdd(FracMul(inv, lumG), scale), FracMul(inv, lumB), z, z,
       FracMul(inv, lumR), FracMul(inv, lumG), FracAdd(FracMul(inv, lumB), scale), z, z,
       z, z, z, Num(1), z>>

\* buildBlackPalette: the palette is the cubic Bezier through 0, lowControl,
\* highControl, 1; it is represented by its two control points.
buildBlackPalette(v) ==
  LET amt == ClampAmount(v)
      strength == <<35, 100>>
      lowControl == clamp01(FracSub(<<33, 100>>, FracMul(amt, strength)))
      highControl == <<66, 100>>
  IN [lowControl |-> lowControl, highControl |-> highControl]

(***************************************************************************)
(* A frame under construction: the texture the next pass samples, the ping *)
(* index and the draws issued so far.  A draw is a record                   *)
(*   [effect, program, input, output, uniforms]                            *)
(* where effect names the block of drawFrame that issued it.               *)
(***************************************************************************)
Targets == <<"target0", "target1">>

FrameStart == [input |-> "source", pingIndex |-> 0, passes |-> <<>>]

\* A swapTarget that hands out a target and leaves pingIndex as it is.
swapTargetNoAdvance(st) ==
  [target |-> Targets[(st.pingIndex % 2) + 1], st |-> st]

\* const target = targets[pingIndex % 2]; pingIndex += 1; return target
swapTarget(st) ==
  [target |-> Targets[(st.pingIndex % 2) + 1],
   st |-> [st EXCEPT !.pingIndex = @ + 1]]

(***************************************************************************)
(* WebGLBackend.drawFrame                                                  *)
(***************************************************************************)
\* drawPass(program, setupUniforms, output); output "canvas" is the null
\* framebuffer.
drawPass(st, effect, program, uniforms, output) ==
  [st EXCEPT
     !.passes = Append(@, [effect |-> effect, program |-> program,
                           input |-> st.input, output |-> output,
                           uniforms |-> uniforms]),
     !.input = IF output # "canvas" THEN output ELSE st.input]

\* drawPass(program, setup, swapTarget())
GLPass(st, effect, uniforms) ==
  LET sw == swapTarget(st)
  IN drawPass(sw.st, effect, effect, uniforms, sw.target)

GLVibrance(st, s) ==
  IF Abs(s.vibrance) > 50
    THEN GLPass(st, "vibrance", [uAmount |-> FracDiv(Real(s.vibrance), 100)])
    ELSE st

GLSaturation(st, s) ==
  IF Abs(s.saturation) > 50
    THEN GLPass(st, "saturation", [uMatrix |-> buildSaturationMatrix(s.saturation)])
    ELSE st

GLTemperature(st, s) ==
  IF Abs(s.temperature) > 50
    THEN GLPass(st, "temperature", [uAmount |-> FracDiv(Real(s.temperature), 500)])
    ELSE st

\* GLTint with the threshold at 0.49: a tint of 0.5 is then drawn.
GLTintLowThreshold(st, s) ==
  IF Abs(s.tint) > 49
    THEN GLPass(st, "tint", [uAmount |-> FracDiv(Real(s.tint), 500)])
    ELSE st

GLTint(st, s) ==
  IF Abs(s.tint) > 50
    THEN GLPass(st, "tint", [uAmount |-> FracDiv(Real(s.tint), 500)])
    ELSE st

GLHue(st, s) ==
  IF Abs(s.hue) > 50
    THEN GLPass(st, "hue", [uRotation |-> FracDiv(Real(s.hue), 200)])
    ELSE st

GLBrightness(st, s) ==
  GLPass(st, "brightness", [uAmount |-> FracDiv(Real(s.brightness), 200)])

GLExposure(st, s) ==
  IF Abs(s.exposure) > 50
    THEN GLPass(st, "exposure", [uAmount |-> FracDiv(Real(s.exposure), 100)])
    ELSE st

\* GLContrast drawn from 0.5 on instead of above 0.5.
GLContrastInclusive(st, s) ==
  IF Abs(s.contrast) >= 50
    THEN GLPass(st, "contrast", [uMatrix |-> buildContrastMatrix(s.contrast)])
    ELSE st

GLContrast(st, s) ==
  IF Abs(s.contrast) > 50
    THEN GLPass(st, "contrast", [uMatrix |-> buildContrastMatrix(s.contrast)])
    ELSE st

GLBlacks(st, s) ==
  IF Abs(s.blacks) > 50
    THEN GLPass(st, "blacks", [uPaletteMap |-> buildBlackPalette(s.blacks)])
    ELSE st

GLWhites(st, s) ==
  IF Abs(s.whites) > 50
    THEN GLPass(st, "whites", [uAmount |-> FracDiv(Real(s.whites), 400)])
    ELSE st

GLHighlights(st, s) ==
  IF Abs(s.highlights) > 50
    THEN GLPass(st, "highlights", [uAmount |-> FracDiv(Real(s.highlights), 100)])
    ELSE st

GLShadows(st, s) ==
  IF Abs(s.shadows) > 50
    THEN GLPass(st, "shadows", [uAmount |-> FracDiv(Real(s.shadows), 100)])
    ELSE st

GLDehaze(st, s, width, height) ==
  IF Abs(s.dehaze) > 50
    THEN GLPass(st, "dehaze", [uAmount |-> FracDiv(Real(s.dehaze), 100),
                               uSize |-> <<Num(width), Num(height)>>])
    ELSE st

GLBloom(st, s, width, height) ==
  IF s.bloom > 50
    THEN GLPass(st, "bloom", [uAmount |-> FracDiv(Real(s.bloom), 100),
                              uTexel |-> <<<<1, width>>, <<1, height>>>>,
                              uThreshold |-> <<1, 2>>])
    ELSE st

GLGlamour(st, s, width, height) ==
  IF s.glamour > 50
    THEN GLPass(st, "glamour", [uAmount |-> FracDiv(Real(s.glamour), 100),
                                uTexel |-> <<<<1, width>>, <<1, height>>>>])
    ELSE st

GLClarity(st, s, width, height) ==
  IF Abs(s.clarity) > 50
    THEN GLPass(st, "clarity", [uAmount |-> FracDiv(Real(s.clarity), 100),
                                uTexel |-> <<<<1, width>>, <<1, height>>>>])
    ELSE st

GLSharpen(st, s, width, height) ==
  IF s.sharpen > 50
    THEN GLPass(st, "sharpen",
                [uTexel |-> <<<<1, width>>, <<1, height>>>>,
                 uAmount |-> FracDiv(Real(s.sharpen), 100),
                 uKernel |-> <<Num(0), Num(-1), Num(0), Num(-1), Num(5),
                               Num(-1), Num(0), Num(-1), Num(0)>>])
    ELSE st

GLSmooth(st, s, width, height) ==
  IF s.smooth > 50
    THEN GLPass(st, "smooth",
                [uTexel |-> <<<<1, width>>, <<1, height>>>>,
                 uAmount |-> FracDiv(Real(s.smooth), 100),
                 uKernel |-> [i \in 1..9 |-> <<1, 9>>]])
    ELSE st

\* GLBlur with the vertical draw issued before the horizontal one.
GLBlurVerticalFirst(st, s, width, height) ==
  LET blurRadius == Real(s.blur)
      v == swapTarget(st)
      st1 == drawPass(v.st, "blurV", "blur",
                      [uSize |-> <<Num(0), FracDiv(blurRadius, height)>>], v.target)
      h == swapTarget(st1)
  IN drawPass(h.st, "blurH", "blur",
              [uSize |-> <<FracDiv(blurRadius, width), Num(0)>>], h.target)

\* Blur (horizontal + vertical): two draws of programs.blur, no condition.
GLBlur(st, s, width, height) ==
  LET blurRadius == Real(s.blur)
      h == swapTarget(st)
      st1 == drawPass(h.st, "blurH", "blur",
                      [uSize |-> <<FracDiv(blurRadius, width), Num(0)>>], h.target)
      v == swapTarget(st1)
  IN drawPass(v.st, "blurV", "blur",
              [uSize |-> <<Num(0), FracDiv(blurRadius, height)>>], v.target)

\* GLVignette skipped while the value is within the 0.5 threshold.
GLVignetteThresholded(st, s) ==
  IF Abs(s.vignette) > 50
    THEN GLPass(st, "vignette", [uAmount |-> FracDiv(Real(s.vignette), 100),
                                 uSize |-> <<1, 4>>])
    ELSE st

GLVignette(st, s) ==
  GLPass(st, "vignette", [uAmount |-> FracDiv(Real(s.vignette), 100),
                          uSize |-> <<1, 4>>])

GLGrain(st, s, width, height) ==
  GLPass(st, "grain", [uResolution |-> <<Num(width), Num(height)>>,
                       uAmount |-> FracDiv(Real(s.grain), 800),
                       uTime |-> Num(0)])

\* Final pass to screen: drawPass(programs.pass, () => {}, null)
\* A final pass that samples the source texture.
GLFinalFromSource(st) ==
  drawPass([st EXCEPT !.input = "source"], "pass", "pass", <<>>, "canvas")

GLFinal(st) == drawPass(st, "pass", "pass", <<>>, "canvas")

WebGLDrawFrame(width, height, s) ==
  LET s1 == GLVibrance(FrameStart, s)
      s2 == GLSaturation(s1, s)
      s3 == GLTemperature(s2, s)
      s4 == GLTint(s3, s)
      s5 == GLHue(s4, s)
      s6 == GLBrightness(s5, s)
      s7 == GLExposure(s6, s)
      s8 == GLContrast(s7, s)
      s9 == GLBlacks(s8, s)
      s10 == GLWhites(s9, s)
      s11 == GLHighlights(s10, s)
      s12 == GLShadows(s11, s)
      s13 == GLDehaze(s12, s, width, height)
      s14 == GLBloom(s13, s, width, height)
      s15 == GLGlamour(s14, s, width, height)
      s16 == GLClarity(s15, s, width, height)
      s17 == GLSharpen(s16, s, width, height)
      s18 == GLSmooth(s17, s, width, height)
      s19 == GLBlur(s18, s, width, height)
      s20 == GLVignette(s19, s)
      s21 == GLGrain(s20, s, width, height)
  IN GLFinal(s21)

(***************************************************************************)
(* WebGPUBackend.drawFrame                                                 *)
(***************************************************************************)
\* The keys of the pipelines record that setupResources builds.
GPUPipelineNames ==
  {"pass", "vibrance", "saturation", "temperature", "tint", "hue",
   "brightness", "exposure", "contrast", "blacks", "whites", "highlights",
   "shadows", "dehaze", "bloom", "glamour", "clarity", "kernel", "blur",
   "vignette", "grain"}

\* runPass(pipelineName, uniformData, outputView): returns at once when the
\* pipeline is missing; takes the next ping-pong target unless an output view
\* (the canvas) is given; only a ping-pong target becomes the next input.
runPass(res, st, effect, pipelineName, uniformData, toCanvas) ==
  IF pipelineName \notin res.pipelines
    THEN st
    ELSE LET sw == IF toCanvas THEN [target |-> "canvas", st |-> st]
                               ELSE swapTarget(st)
         IN [sw.st EXCEPT
               !.passes = Append(@, [effect |-> effect, program |-> pipelineName,
                                     input |-> st.input, output |-> sw.target,
                                     uniforms |-> uniformData]),
               !.input = IF toCanvas THEN st.input ELSE sw.target]

GPUVibrance(res, st, s) ==
  IF Abs(s.vibrance) > 50
    THEN runPass(res, st, "vibrance", "vibrance", <<FracDiv(Real(s.vibrance), 100)>>, FALSE)
    ELSE st

GPUSaturation(res, st, s) ==
  IF Abs(s.saturation) > 50
    THEN runPass(res, st, "saturation", "saturation", buildSaturationMatrix(s.saturation), FALSE)
    ELSE st

GPUTemperature(res, st, s) ==
  IF Abs(s.temperature) > 50
    THEN runPass(res, st, "temperature", "temperature", <<FracDiv(Real(s.temperature), 500)>>, FALSE)
    ELSE st

GPUTint(res, st, s) ==
  IF Abs(s.tint) > 50
    THEN runPass(res, st, "tint", "tint", <<FracDiv(Real(s.tint), 500)>>, FALSE)
    ELSE st

\* GPUHue dividing by 100 where the WebGL backend divides by 200.
GPUHuePer100(res, st, s) ==
  IF Abs(s.hue) > 50
    THEN runPass(res, st, "hue", "hue", <<FracDiv(Real(s.hue), 100)>>, FALSE)
    ELSE st

GPUHue(res, st, s) ==
  IF Abs(s.hue) > 50
    THEN runPass(res, st, "hue", "hue", <<FracDiv(Real(s.hue), 200)>>, FALSE)
    ELSE st

GPUBrightness(res, st, s) ==
  runPass(res, st, "brightness", "brightness", <<FracDiv(Real(s.brightness), 200)>>, FALSE)

GPUExposure(res, st, s) ==
  IF Abs(s.exposure) > 50
    THEN runPass(res, st, "exposure", "exposure", <<FracDiv(Real(s.exposure), 100)>>, FALSE)
    ELSE st

GPUContrast(res, st, s) ==
  IF Abs(s.contrast) > 50
    THEN runPass(res, st, "contrast", "contrast", buildContrastMatrix(s.contrast), FALSE)
    ELSE st

\* Blacks: the palette texture is rewritten and the pass is drawn inline (not
\* through runPass), with the palette as a second texture.
GPUBlacks(res, st, s) ==
  IF Abs(s.blacks) > 50 /\ res.paletteTexture
    THEN LET sw == swapTarget(st)
         IN [sw.st EXCEPT
               !.passes = Append(@, [effect |-> "blacks", program |-> "blacks",
                                     input |-> st.input, output |-> sw.target,
                                     uniforms |-> <<buildBlackPalette(s.blacks)>>]),
               !.input = sw.target]
    ELSE st

\* GPUWhites dividing by 100 instead of 400.
GPUWhitesPer100(res, st, s) ==
  IF Abs(s.whites) > 50
    THEN runPass(res, st, "whites", "whites", <<FracDiv(Real(s.whites), 100)>>, FALSE)
    ELSE st

GPUWhites(res, st, s) ==
  IF Abs(s.whites) > 50
    THEN runPass(res, st, "whites", "whites", <<FracDiv(Real(s.whites), 400)>>, FALSE)
    ELSE st

GPUHighlights(res, st, s) ==
  IF Abs(s.highlights) > 50
    THEN runPass(res, st, "highlights", "highlights", <<FracDiv(Real(s.highlights), 100)>>, FALSE)
    ELSE st

GPUShadows(res, st, s) ==
  IF Abs(s.shadows) > 50
    THEN runPass(res, st, "shadows", "shadows", <<FracDiv(Real(s.shadows), 100)>>, FALSE)
    ELSE st

GPUDehaze(res, st, s) ==
  IF Abs(s.dehaze) > 50
    THEN runPass(res, st, "dehaze", "dehaze",
                 <<FracDiv(Real(s.dehaze), 100), Num(res.width), Num(res.height), Num(0)>>, FALSE)
    ELSE st

\* GPUBloom with the threshold on the absolute value.
GPUBloomBipolar(res, st, s) ==
  IF Abs(s.bloom) > 50
    THEN runPass(res, st, "bloom", "bloom",
                 <<FracDiv(Real(s.bloom), 100), <<1, res.width>>, <<1, res.height>>, <<1, 2>>>>, FALSE)
    ELSE st

GPUBloom(res, st, s) ==
  IF s.bloom > 50
    THEN runPass(res, st, "bloom", "bloom",
                 <<FracDiv(Real(s.bloom), 100), <<1, res.width>>, <<1, res.height>>, <<1, 2>>>>, FALSE)
    ELSE st

GPUGlamour(res, st, s) ==
  IF s.glamour > 50
    THEN runPass(res, st, "glamour", "glamour",
                 <<FracDiv(Real(s.glamour), 100), <<1, res.width>>, <<1, res.height>>, Num(0)>>, FALSE)
    ELSE st

GPUClarity(res, st, s) ==
  IF Abs(s.clarity) > 50
    THEN runPass(res, st, "clarity", "clarity",
                 <<FracDiv(Real(s.clarity), 100), <<1, res.width>>, <<1, res.height>>, Num(0)>>, FALSE)
    ELSE st

GPUSharpen(res, st, s) ==
  IF s.sharpen > 50
    THEN runPass(res, st, "sharpen", "kernel",
                 <<<<1, res.width>>, <<1, res.height>>, FracDiv(Real(s.sharpen), 100), Num(0),
                   Num(0), Num(-1), Num(0), Num(-1), Num(5), Num(-1), Num(0), Num(-1),
                   Num(0), Num(0), Num(0), Num(0)>>, FALSE)
    ELSE st

GPUSmooth(res, st, s) ==
  IF s.smooth > 50
    THEN LET k == <<1, 9>>
         IN runPass(res, st, "smooth", "kernel",
                    <<<<1, res.width>>, <<1, res.height>>, FracDiv(Real(s.smooth), 100), Num(0),
                      k, k, k, k, k, k, k, k, k, Num(0), Num(0), Num(0)>>, FALSE)
    ELSE st

GPUBlurH(res, st, s) ==
  runPass(res, st, "blurH", "blur",
          <<FracDiv(Real(s.blur), res.width), Num(0), Num(0), Num(0)>>, FALSE)

GPUBlurV(res, st, s) ==
  runPass(res, st, "blurV", "blur",
          <<Num(0), FracDiv(Real(s.blur), res.height), Num(0), Num(0)>>, FALSE)

GPUVignette(res, st, s) ==
  runPass(res, st, "vignette", "vignette",
          <<FracDiv(Real(s.vignette), 100), <<1, 4>>, Num(0), Num(0)>>, FALSE)

GPUGrain(res, st, s) ==
  runPass(res, st, "grain", "grain",
          <<Num(res.width), Num(res.height), FracDiv(Real(s.grain), 800), Num(0)>>, FALSE)

\* Final pass to canvas: runPass('pass', undefined, canvasTexture.createView())
GPUFinal(res, st) == runPass(res, st, "pass", "pass", <<>>, TRUE)

WebGPUDrawFrame(res, s) ==
  LET s1 == GPUVibrance(res, FrameStart, s)
      s2 == GPUSaturation(res, s1, s)
      s3 == GPUTemperature(res, s2, s)
      s4 == GPUTint(res, s3, s)
      s5 == GPUHue(res, s4, s)
      s6 == GPUBrightness(res, s5, s)
      s7 == GPUExposure(res, s6, s)
      s8 == GPUContrast(res, s7, s)
      s9 == GPUBlacks(res, s8, s)
      s10 == GPUWhites(res, s9, s)
      s11 == GPUHighlights(res, s10, s)
      s12 == GPUShadows(res, s11, s)
      s13 == GPUDehaze(res, s12, s)
      s14 == GPUBloom(res, s13, s)
      s15 == GPUGlamour(res, s14, s)
      s16 == GPUClarity(res, s15, s)
      s17 == GPUSharpen(res, s16, s)
      s18 == GPUSmooth(res, s17, s)
      s19 == GPUBlurH(res, s18, s)
      s20 == GPUBlurV(res, s19, s)
      s21 == GPUVignette(res, s20, s)
      s22 == GPUGrain(res, s21, s)
  IN GPUFinal(res, s22)

(***************************************************************************)
(* What a draw uploads, by the meaning the shader gives it.  WebGL sets     *)
(* named uniforms; WebGPU writes one packed buffer that the WGSL Params    *)
(* struct of the pipeline's shader reads field by field (padding dropped). *)
(***************************************************************************)
GLParams(pass) ==
  LET u == pass.uniforms
  IN CASE pass.program \in {"vibrance", "temperature", "tint", "brightness",
                            "exposure", "whites", "highlights", "shadows"} ->
            <<u.uAmount>>
       [] pass.program = "hue" -> <<u.uRotation>>
       [] pass.program \in {"saturation", "contrast"} -> u.uMatrix
       [] pass.program = "blacks" -> <<u.uPaletteMap>>
       [] pass.program = "dehaze" -> <<u.uAmount, u.uSize[1], u.uSize[2]>>
       [] pass.program = "bloom" ->
            <<u.uAmount, u.uTexel[1], u.uTexel[2], u.uThreshold>>
       [] pass.program \in {"glamour", "clarity"} ->
            <<u.uAmount, u.uTexel[1], u.uTexel[2]>>
       [] pass.program \in {"sharpen", "smooth"} ->
            <<u.uTexel[1], u.uTexel[2], u.uAmount>> \o u.uKernel
       [] pass.program = "blur" -> u.uSize
       [] pass.program = "vignette" -> <<u.uAmount, u.uSize>>
       [] pass.program = "grain" ->
            <<u.uResolution[1], u.uResolution[2], u.uAmount, u.uTime>>
       [] OTHER -> <<>>

GPUParams(pass) ==
  LET d == pass.uniforms
  IN CASE pass.program \in {"vibrance", "temperature", "tint", "hue", "brightness",
                            "exposure", "whites", "highlights", "shadows"} ->
            <<d[1]>>
       [] pass.program \in {"saturation", "contrast", "blacks"} -> d
       [] pass.program \in {"dehaze", "glamour", "clarity"} -> SubSeq(d, 1, 3)
       [] pass.program \in {"bloom", "grain"} -> SubSeq(d, 1, 4)
       [] pass.program = "kernel" -> SubSeq(d, 1, 3) \o SubSeq(d, 5, 13)
       [] pass.program \in {"blur", "vignette"} -> SubSeq(d, 1, 2)
       [] OTHER -> <<>>

\* The amount (rotation for hue) a draw of a scalar effect uploads.
GLAmount(pass) ==
  IF pass.program = "hue" THEN pass.uniforms.uRotation ELSE pass.uniforms.uAmount

GPUAmount(pass) ==
  IF pass.program \in {"kernel", "grain"} THEN pass.uniforms[3] ELSE pass.uniforms[1]

\* The schedule a frame submits: its draws in order, each by effect and
\* uploaded values.
GLSchedule(frame) ==
  [i \in 1..Len(frame) |-> [effect |-> frame[i].effect, params |-> GLParams(frame[i])]]

GPUSchedule(frame) ==
  [i \in 1..Len(frame) |-> [effect |-> frame[i].effect, params |-> GPUParams(frame[i])]]

(***************************************************************************)
(* State                                                                   *)
(***************************************************************************)
VARIABLES
  testSettings,   \* the settings record given to a WebGLBackend and a WebGPUBackend
  testSize,       \* <<width, height>> of the image both hold
  glFrame,        \* the draws of WebGLBackend.render(testSettings); <<>> before it
  gpuFrame,       \* the draws of WebGPUBackend.render(testSettings); <<>> before it
  webgpuSupported, \* isWebGPUSupported(): 'gpu' in navigator
  webglSupported,  \* isWebGLSupported(): a fresh canvas gives a webgl context
  preferred,      \* options.backend given to the constructor
  constructed,    \* FALSE when the constructor threw: there is no processor
  canvasContext,  \* the context type this.canvas is bound to, "none" before any
  backend,        \* this.backend: 0 for null, else an index into objs
  backendType,    \* this.backendType
  imageLoaded,    \* this.imageLoaded
  initPromise,    \* this.initPromise: 0 for null, else an index into inits
  settings,       \* this.settings
  objs,           \* every backend object created so far
  inits,          \* every initBackend() call so far, with its promise's status
  loads,          \* every load call so far, with the position it has reached
  lastOp,         \* what the last call or callback did
  returned,       \* <<value>> when the last call or callback returned a value, else <<>>
  disposed,       \* dispose() has been called on the processor
  pixels,         \* the pixels a readback of the canvas gives for the image in
                  \* use: .neutral after a render with the default settings,
                  \* .graded after a render with any other settings
  bk,             \* a backend object used directly, with the GPU objects it holds
  live,           \* the GPU objects created through bk and not released since
  serial,         \* the number of load calls made on bk
  visible,        \* what the canvas of bk shows
  issued,         \* the draws of the last render call on bk
  bkOp            \* what the last call on bk did

directVars == <<bk, live, serial, visible, issued, bkOp>>

renderVars == <<testSettings, testSize, glFrame, gpuFrame, directVars>>

envVars == <<webgpuSupported, webglSupported, preferred, constructed, pixels>>

procVars ==
  <<canvasContext, backend, backendType, imageLoaded, initPromise, settings,
    objs, inits, loads, lastOp, returned, disposed>>

vars == <<renderVars, envVars, procVars>>

\* Bounds of the model.
MaxSetCalls == 2

MaxLoads == 2

\* Settings values tried for every field, in hundredths: -0.51, -0.5, 0, 0.5
\* and 0.51.
SettingValues == {-51, -50, 0, 50, 51}

ImageSizes == {<<4, 3>>}

\* setSettings calls that each give one field a value, applied in order to
\* the defaults.
RECURSIVE ApplyCalls(_, _)
ApplyCalls(s, calls) ==
  IF calls = <<>> THEN s
  ELSE ApplyCalls(Merge(s, [x \in {Head(calls)[1]} |-> Head(calls)[2]]), Tail(calls))

\* The resources record WebGPUBackend.setupResources builds for an image.
GPUResources(width, height) ==
  [width |-> width, height |-> height, pipelines |-> GPUPipelineNames,
   paletteTexture |-> TRUE]

Effects(frame) == [i \in 1..Len(frame) |-> frame[i].effect]

(***************************************************************************)
(* ImageColorGrading and the backend objects it creates                    *)
(***************************************************************************)
BackendOptions == {"undefined", "auto", "webgpu", "webgl"}

\* The partial records given to setSettings.
SettingsInputs ==
  {[brightness |-> 2000, contrast |-> 1000], [contrast |-> 0]}

LoadKinds == {"loadImage", "loadFromImage", "loadFromImageData"}

\* The places a load can fail after the old resources are gone: in a
\* WebGLBackend gl.createTexture() returning null, in a WebGPUBackend the
\* read of the image through a 2d canvas (a tainted image) throwing.
LoadFaults == {"none", "createTexture", "getImageData"}

\* selectBestBackend(preferred); "throw" for the Error it throws.
selectBestBackend(pref, gpu, gl) ==
  IF pref = "webgpu" /\ gpu THEN "webgpu"
  ELSE IF pref = "webgl" /\ gl THEN "webgl"
  ELSE IF (pref = "auto" \/ pref = "undefined") /\ gpu THEN "webgpu"
  ELSE IF (pref = "auto" \/ pref = "undefined") /\ gl THEN "webgl"
  ELSE "throw"

\* new WebGPUBackend(canvas) / new WebGLBackend(canvas)
NewBackend(kind) ==
  [kind |-> kind, initialized |-> FALSE, size |-> <<0, 0>>, resources |-> <<>>,
   frame |-> <<>>]

\* What a call or callback did: the draws it issued, the error it raised and
\* whether imageLoaded was set when it began.
NoOp == [op |-> "none", draws |-> 0, error |-> "none", loadedBefore |-> FALSE]

Op(name, draws, error) ==
  [op |-> name, draws |-> draws, error |-> error, loadedBefore |-> imageLoaded]

\* WebGLBackend.init(): the canvas gives a webgl context unless it is bound
\* to another context type.
WebGLInit(obj, ctx) ==
  IF webglSupported /\ ctx \in {"none", "webgl"}
  THEN [obj |-> [obj EXCEPT !.initialized = TRUE], ctx |-> "webgl", error |-> "none"]
  ELSE [obj |-> obj, ctx |-> ctx, error |-> "WebGL not supported"]

\* disposeResources() of either backend
disposeResources(obj) == [obj EXCEPT !.resources = <<>>, !.frame = <<>>]

\* WebGLBackend.loadFromImage / loadFromImageData
WebGLLoad(obj, size, fault, ctx) ==
  LET init == IF obj.initialized THEN [obj |-> obj, ctx |-> ctx, error |-> "none"]
              ELSE WebGLInit(obj, ctx)
      cleared == disposeResources([init.obj EXCEPT !.size = size])
  IN IF init.error # "none" THEN init
     ELSE IF fault = "createTexture"
     THEN [obj |-> cleared, ctx |-> init.ctx, error |-> "Failed to create texture"]
     ELSE [obj |-> [cleared EXCEPT !.resources = <<[width |-> size[1], height |-> size[2]]>>],
           ctx |-> init.ctx, error |-> "none"]

\* WebGPULoad without the check that the device exists.
WebGPULoadNoDeviceCheck(obj, size, fault, ctx) ==
  LET cleared == disposeResources([obj EXCEPT !.size = size])
  IN IF ctx \notin {"none", "webgpu"}
     THEN [obj |-> cleared, ctx |-> ctx, error |-> "Failed to get WebGPU context"]
     ELSE IF fault = "getImageData"
     THEN [obj |-> cleared, ctx |-> "webgpu", error |-> "SecurityError"]
     ELSE [obj |-> [cleared EXCEPT !.resources = <<[width |-> size[1], height |-> size[2]]>>],
           ctx |-> "webgpu", error |-> "none"]

\* WebGPUBackend.loadFromImage / loadFromImageData
WebGPULoad(obj, size, fault, ctx) ==
  LET cleared == disposeResources([obj EXCEPT !.size = size])
  IN IF ~obj.initialized
     THEN [obj |-> obj, ctx |-> ctx, error |-> "WebGPU not initialized"]
     ELSE IF ctx \notin {"none", "webgpu"}
     THEN [obj |-> cleared, ctx |-> ctx, error |-> "Failed to get WebGPU context"]
     ELSE IF fault = "getImageData"
     THEN [obj |-> cleared, ctx |-> "webgpu", error |-> "SecurityError"]
     ELSE [obj |-> [cleared EXCEPT !.resources = <<[width |-> size[1], height |-> size[2]]>>],
           ctx |-> "webgpu", error |-> "none"]

BackendLoad(obj, size, fault, ctx) ==
  IF obj.kind = "webgl" THEN WebGLLoad(obj, size, fault, ctx)
  ELSE WebGPULoad(obj, size, fault, ctx)

\* The draws drawFrame issues for the backend's resources.
DrawFrame(obj, s) ==
  LET r == obj.resources[1]
  IN IF obj.kind = "webgl"
     THEN Effects(WebGLDrawFrame(r.width, r.height, s).passes)
     ELSE Effects(WebGPUDrawFrame(GPUResources(r.width, r.height), s).passes)

\* render(settings) of either backend
BackendRender(obj, s) ==
  IF obj.resources = <<>> THEN obj
  ELSE [obj EXCEPT !.frame = DrawFrame(obj, s)]

\* dispose() of either backend
BackendDispose(obj) == [disposeResources(obj) EXCEPT !.initialized = FALSE]

\* ImageColorGrading.render() on processor fields b, loaded, s and heap os
ProcRender(b, loaded, s, os) ==
  IF b = 0 \/ ~loaded THEN os
  ELSE [os EXCEPT ![b] = BackendRender(os[b], s)]

\* The number of draws that render issued, read from the heap after it.
Drawn(b, loaded, after) ==
  IF b = 0 \/ ~loaded \/ after[b].resources = <<>> THEN 0
  ELSE Len(after[b].frame)

(***************************************************************************)
(* Image analysis.  Pixel data is a record [width, height, data] whose     *)
(* data is a sequence of runs [n, r, g, b]: n consecutive pixels with the  *)
(* 8-bit channel values r, g, b (the loops of the analysis read no alpha   *)
(* and do not depend on the order of the pixels).                          *)
(***************************************************************************)
\* Math.round on a non-negative fraction: the nearest integer, halves up
Round(f) == (2 * f[1] + f[2]) \div (2 * f[2])

\* The histogram loop for one bucket: one count per R, G and B sample of
\* value v.
RECURSIVE Samples(_, _)
Samples(data, v) ==
  IF data = <<>> THEN 0
  ELSE LET run == Head(data)
       IN run.n * ((IF run.r = v THEN 1 ELSE 0) + (IF run.g = v THEN 1 ELSE 0)
                   + (IF run.b = v THEN 1 ELSE 0))
          + Samples(Tail(data), v)

\* The values with a non-empty bucket in the histogram of the data.
RECURSIVE Sampled(_)
Sampled(data) ==
  IF data = <<>> THEN {}
  ELSE {Head(data).r, Head(data).g, Head(data).b} \cup Sampled(Tail(data))

\* The two scans of the histogram: the first bucket, going up from 0 or down
\* from 255, that holds more than threshold samples; none when no bucket
\* does.  The threshold is not negative, so an empty bucket never ends a scan
\* and only the sampled values are tried.
FirstOver(data, threshold, upwards, none) ==
  LET over == {i \in Sampled(data) : Samples(data, i) > threshold}
  IN IF over = {} THEN none
     ELSE IF upwards THEN CHOOSE i \in over : \A j \in over : i <= j
     ELSE CHOOSE i \in over : \A j \in over : i >= j

\* Math.round((width * height) / 1e3)
LevelThreshold(imageData) == Round(<<imageData.width * imageData.height, 1000>>)

\* analyzeImageLevels(imageData)
analyzeImageLevels(imageData) ==
  [black |-> Min(FirstOver(imageData.data, LevelThreshold(imageData), TRUE, 0), 100),
   white |-> Max(FirstOver(imageData.data, LevelThreshold(imageData), FALSE, 255), 155)]

\* The loop of analyzeImageVibrance: what the pixels add to brightnessSum
\* (max / 255 each) and to saturationSum (chroma / max where chroma > 0).
RECURSIVE BrightnessOf(_)
BrightnessOf(data) ==
  IF data = <<>> THEN <<0, 1>>
  ELSE LET run == Head(data)
           max == Max(run.r, Max(run.g, run.b))
       IN FracAdd(Norm(<<run.n * max, 255>>), BrightnessOf(Tail(data)))

RECURSIVE SaturationOf(_)
SaturationOf(data) ==
  IF data = <<>> THEN <<0, 1>>
  ELSE LET run == Head(data)
           max == Max(run.r, Max(run.g, run.b))
           min == Min(run.r, Min(run.g, run.b))
           chroma == max - min
       IN FracAdd(IF chroma > 0 THEN Norm(<<run.n * chroma, max>>) ELSE <<0, 1>>,
                  SaturationOf(Tail(data)))

\* analyzeImageVibrance: (saturationSum + brightnessSum) / (pixelCount * 2),
\* both sums starting at 1.
analyzeImageVibrance(imageData) ==
  LET saturationSum == FracAdd(<<1, 1>>, SaturationOf(imageData.data))
      brightnessSum == FracAdd(<<1, 1>>, BrightnessOf(imageData.data))
      pixelCount == imageData.width * imageData.height
  IN FracDiv(FracAdd(saturationSum, brightnessSum), pixelCount * 2)

\* The settings autoFix() derives from the levels and the vibrance estimate,
\* in hundredths.
autoFixSettings(levels, vibrance) ==
  LET boost == Round(FracMul(FracSub(<<7, 10>>, vibrance), <<100, 1>>))
  IN [defaultSettings EXCEPT
        !.whites = 100 * (255 - levels.white),
        !.blacks = 100 * levels.black,
        !.vibrance = IF vibrance[1] * 10 < 7 * vibrance[2]
                     THEN 100 * Min(boost, 50) ELSE 0]

\* A canvas that was cleared and not drawn to since.
Blank(size) ==
  [width |-> size[1], height |-> size[2],
   data |-> <<[n |-> size[1] * size[2], r |-> 0, g |-> 0, b |-> 0]>>]

\* backend.getImageData() right after backend.render(s): WebGL reads the
\* canvas through its context, WebGPU copies the canvas of its resources.
getImageData(obj, s) ==
  IF obj.kind = "webgpu"
  THEN IF obj.resources = <<>> THEN [error |-> "No image loaded", data |-> <<>>]
       ELSE [error |-> "none",
             data |-> <<IF s = defaultSettings THEN pixels.neutral ELSE pixels.graded>>]
  ELSE IF ~obj.initialized THEN [error |-> "Cannot get ImageData", data |-> <<>>]
  ELSE IF obj.size[1] * obj.size[2] = 0 THEN [error |-> "IndexSizeError", data |-> <<>>]
  ELSE IF obj.resources = <<>> THEN [error |-> "none", data |-> <<Blank(obj.size)>>]
  ELSE [error |-> "none",
        data |-> <<IF s = defaultSettings THEN pixels.neutral ELSE pixels.graded>>]

\* No continuation of an await is ready to run: timers, image events and
\* promise settlements of the platform run only then.
Ready(l) ==
  /\ loads[l].stage = "awaitInit"
  /\ inits[loads[l].init].status # "pending"

MicrotasksDrained == \A l \in 1..Len(loads) : ~Ready(l)

SetStage(l, stage) == [loads EXCEPT ![l].stage = stage]

\* The start of loadImage(url), loadFromImage(image) or
\* loadFromImageData(data): ensureBackend() up to its await.
LoadCall(kind) ==
  /\ constructed
  /\ Len(loads) < MaxLoads
  /\ IF initPromise # 0
     THEN UNCHANGED <<canvasContext, backend, objs, inits, initPromise>>
     ELSE /\ initPromise' = Len(inits) + 1
          /\ IF backend # 0
             THEN /\ inits' = Append(inits, [status |-> "resolved", obj |-> 0])
                  /\ UNCHANGED <<canvasContext, backend, objs>>
             ELSE IF backendType = "webgpu"
             THEN /\ objs' = Append(objs, NewBackend("webgpu"))
                  /\ backend' = Len(objs) + 1
                  /\ inits' = Append(inits, [status |-> "pending", obj |-> Len(objs) + 1])
                  /\ UNCHANGED canvasContext
             ELSE LET r == WebGLInit(NewBackend("webgl"), canvasContext)
                  IN /\ objs' = Append(objs, r.obj)
                     /\ backend' = Len(objs) + 1
                     /\ canvasContext' = r.ctx
                     /\ inits' = Append(inits,
                          [status |-> IF r.error = "none" THEN "resolved" ELSE "rejected",
                           obj |-> Len(objs) + 1])
  /\ loads' = Append(loads, [url |-> (kind = "loadImage"), stage |-> "awaitInit",
                             init |-> initPromise'])
  /\ lastOp' = Op(kind, 0, "none")
  /\ returned' = <<>>
  /\ UNCHANGED <<backendType, imageLoaded, settings, disposed>>

\* WebGPUBackend.init() of initBackend call i settles, and initBackend runs
\* to its end: the device is stored, or the catch block falls back to WebGL.
InitSettle(i, ok) ==
  /\ inits[i].status = "pending"
  /\ MicrotasksDrained
  /\ IF ok
     THEN /\ objs' = [objs EXCEPT ![inits[i].obj].initialized = TRUE]
          /\ inits' = [inits EXCEPT ![i].status = "resolved"]
          /\ lastOp' = Op("initBackend", 0, "none")
          /\ UNCHANGED <<canvasContext, backend, backendType>>
     ELSE LET r == WebGLInit(NewBackend("webgl"), canvasContext)
          IN /\ objs' = Append(objs, r.obj)
             /\ backend' = Len(objs) + 1
             /\ canvasContext' = r.ctx
             /\ backendType' = IF r.error = "none" THEN "webgl" ELSE backendType
             /\ inits' = [inits EXCEPT
                  ![i].status = IF r.error = "none" THEN "resolved" ELSE "rejected"]
             /\ lastOp' = Op("initBackend", 0, r.error)
  /\ returned' = <<>>
  /\ UNCHANGED <<imageLoaded, initPromise, settings, loads, disposed>>

\* this.backend!.loadFromImage(image); this.imageLoaded = true; this.render()
\* run for load l; failed is the stage the load takes when a step throws.
Install(l, size, fault, failed) ==
  IF backend = 0
  THEN /\ loads' = SetStage(l, failed)
       /\ lastOp' = Op("load", 0, "TypeError")
       /\ UNCHANGED <<canvasContext, objs, imageLoaded>>
  ELSE LET r == BackendLoad(objs[backend], size, fault, canvasContext)
           loaded == [objs EXCEPT ![backend] = r.obj]
       IN /\ canvasContext' = r.ctx
          /\ IF r.error # "none"
             THEN /\ objs' = loaded
                  /\ loads' = SetStage(l, failed)
                  /\ lastOp' = Op("load", 0, r.error)
                  /\ UNCHANGED imageLoaded
             ELSE /\ objs' = ProcRender(backend, TRUE, settings, loaded)
                  /\ imageLoaded' = TRUE
                  /\ loads' = SetStage(l, "resolved")
                  /\ lastOp' = Op("load", Drawn(backend, TRUE, objs'), "none")

\* The continuation of load l after `await this.ensureBackend()`.  Ready
\* continuations run in the order their calls were made.
LoadResume(l, size, fault) ==
  /\ Ready(l)
  /\ \A k \in 1..(l - 1) : ~Ready(k)
  /\ IF inits[loads[l].init].status = "rejected"
     THEN /\ loads' = SetStage(l, "rejected")
          /\ lastOp' = Op("load", 0, "init rejected")
          /\ UNCHANGED <<canvasContext, objs, imageLoaded>>
     ELSE IF loads[l].url
     THEN /\ loads' = SetStage(l, "awaitImage")
          /\ lastOp' = Op("load", 0, "none")
          /\ UNCHANGED <<canvasContext, objs, imageLoaded>>
     ELSE Install(l, size, fault, "rejected")
  /\ returned' = <<>>
  /\ UNCHANGED <<backend, backendType, initPromise, settings, inits, disposed>>

\* image.onload of loadImage call l.  An exception in the handler leaves the
\* promise neither resolved nor rejected.
ImageOnload(l, size, fault) ==
  /\ loads[l].stage = "awaitImage"
  /\ MicrotasksDrained
  /\ Install(l, size, fault, "unsettled")
  /\ returned' = <<>>
  /\ UNCHANGED <<backend, backendType, initPromise, settings, inits, disposed>>

\* image.onerror of loadImage call l
ImageOnerror(l) ==
  /\ loads[l].stage = "awaitImage"
  /\ MicrotasksDrained
  /\ loads' = SetStage(l, "rejected")
  /\ lastOp' = Op("load", 0, "Failed to load image")
  /\ returned' = <<>>
  /\ UNCHANGED <<canvasContext, backend, backendType, imageLoaded, initPromise,
                 settings, objs, inits, disposed>>

\* ImageColorGrading.render()
Render ==
  /\ constructed
  /\ objs' = ProcRender(backend, imageLoaded, settings, objs)
  /\ lastOp' = Op("render", Drawn(backend, imageLoaded, objs'), "none")
  /\ returned' = <<>>
  /\ UNCHANGED <<canvasContext, backend, backendType, imageLoaded, initPromise,
                 settings, inits, loads, disposed>>

\* ImageColorGrading.getSettings(): a copy of this.settings
getSettings == settings

\* ImageColorGrading.setSettings(newSettings)
SetSettings(newSettings) ==
  /\ constructed
  /\ settings' = Merge(settings, newSettings)
  /\ objs' = ProcRender(backend, imageLoaded, settings', objs)
  /\ lastOp' = Op("setSettings", Drawn(backend, imageLoaded, objs'), "none")
  /\ returned' = <<>>
  /\ UNCHANGED <<canvasContext, backend, backendType, imageLoaded, initPromise,
                 inits, loads, disposed>>

\* The draws of one render of the default settings by the processor's backend.
NeutralDraws ==
  IF backend = 0 \/ objs[backend].resources = <<>> THEN 0
  ELSE Len(DrawFrame(objs[backend], defaultSettings))

\* ImageColorGrading.analyze(): render the default settings, read the canvas
\* back (getImageData renders once more), analyse, then restore and render
\* the settings in force.  An exception of the readback leaves the defaults
\* in force, after the two renders.
Analyze ==
  /\ constructed
  /\ IF ~imageLoaded \/ backend = 0
     THEN /\ lastOp' = Op("analyze", 0, "No image loaded")
          /\ returned' = <<>>
          /\ UNCHANGED <<settings, objs>>
     ELSE /\ settings' = IF getImageData(objs[backend], defaultSettings).error # "none"
                         THEN defaultSettings
                         ELSE settings
          /\ objs' = ProcRender(backend, TRUE, settings', objs)
          /\ lastOp' = Op("analyze",
                          IF getImageData(objs[backend], defaultSettings).error # "none"
                          THEN 2 * NeutralDraws
                          ELSE 2 * NeutralDraws + Drawn(backend, TRUE, objs'),
                          getImageData(objs[backend], defaultSettings).error)
          /\ returned' = IF getImageData(objs[backend], defaultSettings).error # "none" THEN <<>>
                         ELSE <<[levels |-> analyzeImageLevels(getImageData(objs[backend], defaultSettings).data[1]),
                              vibrance |-> analyzeImageVibrance(getImageData(objs[backend], defaultSettings).data[1])]>>
  /\ UNCHANGED <<canvasContext, backend, backendType, imageLoaded, initPromise,
                 inits, loads, disposed>>

\* An autoFix() that reads the canvas back as the settings in force left it.
AutoFixNoReset ==
  /\ constructed
  /\ IF ~imageLoaded \/ backend = 0
     THEN /\ lastOp' = Op("autoFix", 0, "No image loaded")
          /\ returned' = <<>>
          /\ UNCHANGED <<settings, objs>>
     ELSE /\ settings' = IF getImageData(objs[backend], settings).error # "none"
                         THEN defaultSettings
                         ELSE autoFixSettings(analyzeImageLevels(getImageData(objs[backend], settings).data[1]),
                                       analyzeImageVibrance(getImageData(objs[backend], settings).data[1]))
          /\ objs' = ProcRender(backend, TRUE, settings', objs)
          /\ lastOp' = Op("autoFix",
                          IF getImageData(objs[backend], settings).error # "none"
                          THEN 2 * NeutralDraws
                          ELSE 2 * NeutralDraws + Drawn(backend, TRUE, objs'),
                          getImageData(objs[backend], settings).error)
          /\ returned' = IF getImageData(objs[backend], settings).error # "none" THEN <<>>
                         ELSE <<settings'>>
  /\ UNCHANGED <<canvasContext, backend, backendType, imageLoaded, initPromise,
                 inits, loads, disposed>>

\* ImageColorGrading.autoFix(): render the default settings, read the canvas
\* back (getImageData renders once more), analyse, install and render the
\* derived settings.  An exception of the readback leaves the defaults in
\* force, after the two renders.
AutoFix ==
  /\ constructed
  /\ IF ~imageLoaded \/ backend = 0
     THEN /\ lastOp' = Op("autoFix", 0, "No image loaded")
          /\ returned' = <<>>
          /\ UNCHANGED <<settings, objs>>
     ELSE /\ settings' = IF getImageData(objs[backend], defaultSettings).error # "none"
                         THEN defaultSettings
                         ELSE autoFixSettings(analyzeImageLevels(getImageData(objs[backend], defaultSettings).data[1]),
                                       analyzeImageVibrance(getImageData(objs[backend], defaultSettings).data[1]))
          /\ objs' = ProcRender(backend, TRUE, settings', objs)
          /\ lastOp' = Op("autoFix",
                          IF getImageData(objs[backend], defaultSettings).error # "none"
                          THEN 2 * NeutralDraws
                          ELSE 2 * NeutralDraws + Drawn(backend, TRUE, objs'),
                          getImageData(objs[backend], defaultSettings).error)
          /\ returned' = IF getImageData(objs[backend], defaultSettings).error # "none" THEN <<>>
                         ELSE <<settings'>>
  /\ UNCHANGED <<canvasContext, backend, backendType, imageLoaded, initPromise,
                 inits, loads, disposed>>

\* A dispose() that keeps the promise of the initialization it undoes.
DisposeKeepsInitPromise ==
  /\ constructed
  /\ objs' = IF backend = 0 THEN objs
             ELSE [objs EXCEPT ![backend] = BackendDispose(objs[backend])]
  /\ backend' = 0
  /\ imageLoaded' = FALSE
  /\ lastOp' = Op("dispose", 0, "none")
  /\ returned' = <<>>
  /\ disposed' = TRUE
  /\ UNCHANGED <<canvasContext, backendType, settings, inits, loads, initPromise>>

\* ImageColorGrading.dispose()
Dispose ==
  /\ constructed
  /\ objs' = IF backend = 0 THEN objs
             ELSE [objs EXCEPT ![backend] = BackendDispose(objs[backend])]
  /\ backend' = 0
  /\ imageLoaded' = FALSE
  /\ initPromise' = 0
  /\ lastOp' = Op("dispose", 0, "none")
  /\ returned' = <<>>
  /\ disposed' = TRUE
  /\ UNCHANGED <<canvasContext, backendType, settings, inits, loads>>

(***************************************************************************)
(* A backend used directly, with the GPU objects it creates and releases.  *)
(* A GPU object is named by its type, its role in the resources record,    *)
(* the part of a program it is and the load call that created it.          *)
(***************************************************************************)
\* Bounds of the direct use of a backend.
MaxBackendLoads == 2

MaxRenders == 2

\* Sizes of the images loaded: two loads can have equal or different sizes.
BackendSizes == {<<4, 3>>, <<2, 2>>}

\* The settings rendered: the defaults, and contrast with blacks.
BackendSettings ==
  {defaultSettings, [defaultSettings EXCEPT !.contrast = 2000, !.blacks = 1000]}

Id(type, role, part, gen) == [type |-> type, role |-> role, part |-> part, gen |-> gen]

\* The keys of the programs record of initResources, in source order.
GLProgramOrder ==
  <<"pass", "vibrance", "saturation", "temperature", "tint", "hue",
    "brightness", "exposure", "contrast", "blacks", "whites", "highlights",
    "shadows", "dehaze", "bloom", "glamour", "clarity", "sharpen", "smooth",
    "blur", "vignette", "grain">>

\* buildProgram: createShader twice, then createProgram.
buildProgram(name, gen) ==
  <<Id("shader", name, "vertex", gen), Id("shader", name, "fragment", gen),
    Id("program", name, "", gen)>>

\* createRenderTarget: createTexture, then createFramebuffer.
createRenderTarget(target, gen) ==
  <<Id("texture", target, "", gen), Id("framebuffer", target, "", gen)>>

\* The objects WebGLBackend.loadFromImage / loadFromImageData and
\* initResources create, in the order of the calls.
GLCreationOrder(gen) ==
  <<Id("texture", "sourceTexture", "", gen), Id("texture", "blackPalette", "", gen),
    Id("buffer", "positionBuffer", "", gen), Id("buffer", "texCoordBuffer", "", gen)>>
  \o [i \in 1..(3 * Len(GLProgramOrder)) |->
        buildProgram(GLProgramOrder[((i - 1) \div 3) + 1], gen)[((i - 1) % 3) + 1]]
  \o createRenderTarget(Targets[1], gen) \o createRenderTarget(Targets[2], gen)

\* The objects WebGPUBackend.initResources / initResourcesFromImageData and
\* setupResources create and can destroy (samplers, pipelines and views have
\* no destroy method).
GPUCreationOrder(gen) ==
  <<Id("texture", "sourceTexture", "", gen), Id("buffer", "vertexBuffer", "", gen),
    Id("texture", "paletteTexture", "", gen),
    Id("texture", Targets[1], "", gen), Id("texture", Targets[2], "", gen)>>

\* The creation calls of a WebGL load tried as the one that fails (0: none):
\* the source texture, the first buffer, the fragment shader of the first
\* program, the framebuffer of the second render target.
GLLoadFaults == {0, 1, 3, 6, 74}

\* What makes a WebGPU load throw: canvas.getContext('webgpu') gives null, or
\* (loadFromImage only) getImageData of the temporary canvas throws.
GPULoadFaults == {"none", "getContext", "getImageData"}

\* The message of the Error thrown when creation j of the order gives null.
GLCreationError(id) ==
  IF id.type = "shader" THEN "Shader compile failed."
  ELSE IF id.type = "program" THEN "Program link failed."
  ELSE IF id.type = "buffer" THEN "Failed to create buffers"
  ELSE IF id.type = "framebuffer" THEN "Unable to create framebuffer"
  ELSE IF id.role = "sourceTexture" THEN "Failed to create texture"
  ELSE IF id.role = "blackPalette" THEN "Unable to create palette texture"
  ELSE "Unable to create texture"

\* The objects that exist when creation j of the order has failed: those
\* created before it, and the one created after it when the result of j is
\* tested only then (the second buffer, the fragment shader).
CreatedBefore(order, j) ==
  {order[i] : i \in 1..(j - 1)}
    \cup (IF order[j].role = "positionBuffer" \/ order[j].part = "vertex"
          THEN {order[j + 1]} ELSE {})

\* this.resources = { ... } at the end of initResources / setupResources
NewResources(size, order) ==
  [width |-> size[1], height |-> size[2], gen |-> order[1].gen,
   objects |-> {order[i] : i \in 1..Len(order)}]

\* The ids of the two render targets of a resources record.
TargetsOf(objects) == {id \in objects : id.role \in {Targets[1], Targets[2]}}

\* A release order that leaves the render targets out.
ReleaseOrderKeepsTargets(kind, r) ==
  LET g == r.gen
  IN IF kind = "webgl"
     THEN <<Id("texture", "sourceTexture", "", g), Id("texture", "blackPalette", "", g),
            Id("buffer", "positionBuffer", "", g), Id("buffer", "texCoordBuffer", "", g)>>
          \o [i \in 1..Len(GLProgramOrder) |-> Id("program", GLProgramOrder[i], "", g)]
     ELSE <<Id("texture", "sourceTexture", "", g), Id("buffer", "vertexBuffer", "", g),
            Id("texture", "paletteTexture", "", g)>>

\* The release calls of disposeResources, in order.
ReleaseOrder(kind, r) ==
  LET g == r.gen
  IN IF kind = "webgl"
     THEN <<Id("texture", "sourceTexture", "", g), Id("texture", "blackPalette", "", g),
            Id("buffer", "positionBuffer", "", g), Id("buffer", "texCoordBuffer", "", g),
            Id("framebuffer", Targets[1], "", g), Id("texture", Targets[1], "", g),
            Id("framebuffer", Targets[2], "", g), Id("texture", Targets[2], "", g)>>
          \o [i \in 1..Len(GLProgramOrder) |-> Id("program", GLProgramOrder[i], "", g)]
     ELSE <<Id("texture", "sourceTexture", "", g), Id("buffer", "vertexBuffer", "", g),
            Id("texture", Targets[1], "", g), Id("texture", Targets[2], "", g),
            Id("texture", "paletteTexture", "", g)>>

\* The release calls tried as the one that throws (0: none).
ReleaseFaults == {0, 1, 5}

\* The objects released when release call j throws (all of them for j = 0 or
\* beyond the last call).
Released(order, j) ==
  IF j = 0 \/ j > Len(order) THEN {order[i] : i \in 1..Len(order)}
  ELSE {order[i] : i \in 1..(j - 1)}

\* The canvas after canvas.width / canvas.height were assigned.
BlankCanvas == [look |-> "blank", gen |-> 0, settings |-> defaultSettings]

\* What a call on the backend did: the error it raised, the pass that failed
\* in it, the number of draws it issued, and the size held when it began.
NoCall ==
  [op |-> "none", error |-> "none", failed |-> 0, passes |-> 0, sizeBefore |-> <<0, 0>>]

Call(op, error, failed, passes) ==
  [op |-> op, error |-> error, failed |-> failed, passes |-> passes,
   sizeBefore |-> bk.size]

\* new WebGLBackend(canvas) / new WebGPUBackend(canvas), used directly
DirectBackend(kind) ==
  [kind |-> kind, context |-> FALSE, size |-> <<0, 0>>, resources |-> <<>>,
   renders |-> 0]

\* No backend is used directly.
NoDirectBackend ==
  /\ bk = DirectBackend("none") /\ live = {} /\ serial = 0
  /\ visible = BlankCanvas /\ issued = <<>> /\ bkOp = NoCall

\* The image every load of the processor's life cycle loads: what a readback
\* gives for it after a render of the default settings and after any other.
\* Its neutral render is saturated red, which autoFix leaves at the defaults.
LoadedPixels ==
  [neutral |-> [width |-> 4, height |-> 3,
                data |-> <<[n |-> 12, r |-> 255, g |-> 0, b |-> 0]>>],
   graded |-> [width |-> 4, height |-> 3,
               data |-> <<[n |-> 12, r |-> 255, g |-> 255, b |-> 255]>>]]

\* No processor: the fields of the state that belong to one.
NoProcessor ==
  /\ webgpuSupported = TRUE /\ webglSupported = TRUE /\ preferred = "undefined"
  /\ constructed = FALSE
  /\ canvasContext = "none" /\ backend = 0 /\ backendType = "none"
  /\ imageLoaded = FALSE /\ initPromise = 0 /\ settings = defaultSettings
  /\ objs = <<>> /\ inits = <<>> /\ loads = <<>> /\ lastOp = NoOp
  /\ returned = <<>> /\ disposed = FALSE /\ pixels = LoadedPixels

\* new ImageColorGrading({backend: preferred}) in each environment
Init ==
  /\ webgpuSupported \in BOOLEAN
  /\ webglSupported \in BOOLEAN
  /\ preferred \in BackendOptions
  /\ constructed = (selectBestBackend(preferred, webgpuSupported, webglSupported) # "throw")
  /\ backendType = IF constructed
                   THEN selectBestBackend(preferred, webgpuSupported, webglSupported)
                   ELSE "none"
  /\ canvasContext = "none" /\ backend = 0
  /\ imageLoaded = FALSE /\ initPromise = 0 /\ settings = defaultSettings
  /\ objs = <<>> /\ inits = <<>> /\ loads = <<>> /\ lastOp = NoOp
  /\ returned = <<>> /\ disposed = FALSE /\ pixels = LoadedPixels
  /\ testSettings = defaultSettings /\ testSize \in ImageSizes
  /\ glFrame = <<>> /\ gpuFrame = <<>>
  /\ NoDirectBackend

Next ==
  \/ \E kind \in LoadKinds : LoadCall(kind) /\ UNCHANGED <<renderVars, envVars>>
  \/ \E i \in 1..Len(inits), ok \in BOOLEAN :
       InitSettle(i, ok) /\ UNCHANGED <<renderVars, envVars>>
  \/ \E l \in 1..Len(loads), size \in ImageSizes, fault \in LoadFaults :
       LoadResume(l, size, fault) /\ UNCHANGED <<renderVars, envVars>>
  \/ \E l \in 1..Len(loads), size \in ImageSizes, fault \in LoadFaults :
       ImageOnload(l, size, fault) /\ UNCHANGED <<renderVars, envVars>>
  \/ \E l \in 1..Len(loads) : ImageOnerror(l) /\ UNCHANGED <<renderVars, envVars>>
  \/ Render /\ UNCHANGED <<renderVars, envVars>>
  \/ \E p \in SettingsInputs : SetSettings(p) /\ UNCHANGED <<renderVars, envVars>>
  \/ Dispose /\ UNCHANGED <<renderVars, envVars>>

Spec == Init /\ [][Next]_vars

(***************************************************************************)
(* autoFix() on a processor that has loaded an image                       *)
(***************************************************************************)
\* Bounds of the images analysed: the length of the run of pixels that differ
\* from the rest of the image.
MaxMinority == 2

\* width and height of the images: 4, 600 and 1500 pixels
AnalyzeSizes == {<<2, 2>>, <<30, 20>>, <<50, 30>>}

\* The r, g, b values of the pixels.
Colours ==
  {<<0, 0, 0>>, <<0, 51, 85>>, <<51, 85, 102>>, <<102, 153, 170>>,
   <<170, 170, 255>>, <<255, 0, 0>>, <<255, 255, 255>>}

\* The ImageData of size pixels of which k are minor and the rest major.
Image(size, k, minor, major) ==
  [width |-> size[1], height |-> size[2],
   data |-> IF k = 0
            THEN <<[n |-> size[1] * size[2], r |-> major[1], g |-> major[2], b |-> major[3]]>>
            ELSE <<[n |-> k, r |-> minor[1], g |-> minor[2], b |-> minor[3]],
                   [n |-> size[1] * size[2] - k,
                    r |-> major[1], g |-> major[2], b |-> major[3]]>>]

\* An initialized backend after loadFromImage of an image of the size and a
\* render of the default settings; with held false, after a later load of
\* the same size that failed once the previous resources were released.
LoadedBackend(kind, size, held) ==
  LET fresh == [NewBackend(kind) EXCEPT !.initialized = TRUE]
      r == BackendLoad(fresh, size,
                       IF held THEN "none"
                       ELSE IF kind = "webgl" THEN "createTexture" ELSE "getImageData",
                       kind)
  IN IF held THEN BackendRender(r.obj, defaultSettings) ELSE r.obj

\* A processor whose load call has ended, for every image, both backends and
\* a second load that failed.
AnalyzeInit ==
  /\ \E size \in AnalyzeSizes, k \in 0..MaxMinority, minor \in Colours, major \in Colours :
       pixels = [neutral |-> Image(size, k, minor, major),
                 graded |-> Image(size, 0, major, <<255, 255, 255>>)]
  /\ \E kind \in {"webgl", "webgpu"}, held \in BOOLEAN :
       /\ webgpuSupported = (kind = "webgpu") /\ webglSupported = TRUE
       /\ preferred = kind /\ backendType = kind /\ canvasContext = kind
       /\ objs = <<LoadedBackend(kind, <<pixels.neutral.width, pixels.neutral.height>>, held)>>
       /\ loads = IF held THEN <<[url |-> FALSE, stage |-> "resolved", init |-> 1]>>
                  ELSE <<[url |-> FALSE, stage |-> "resolved", init |-> 1],
                         [url |-> FALSE, stage |-> "rejected", init |-> 1]>>
       /\ lastOp = IF held
                   THEN [op |-> "load", draws |-> Len(objs[1].frame), error |-> "none",
                         loadedBefore |-> FALSE]
                   ELSE [op |-> "load", draws |-> 0,
                         error |-> IF kind = "webgl" THEN "Failed to create texture"
                                   ELSE "SecurityError",
                         loadedBefore |-> TRUE]
  /\ constructed = TRUE /\ backend = 1 /\ imageLoaded = TRUE /\ initPromise = 1
  /\ inits = <<[status |-> "resolved", obj |-> 1]>>
  /\ settings = defaultSettings /\ returned = <<>> /\ disposed = FALSE
  /\ testSettings = defaultSettings /\ testSize \in ImageSizes
  /\ glFrame = <<>> /\ gpuFrame = <<>>
  /\ NoDirectBackend

AnalyzeNext ==
  \/ AutoFix /\ UNCHANGED <<renderVars, envVars>>
  \/ Analyze /\ UNCHANGED <<renderVars, envVars>>
  \/ \E p \in SettingsInputs : SetSettings(p) /\ UNCHANGED <<renderVars, envVars>>
  \/ Dispose /\ UNCHANGED <<renderVars, envVars>>

SpecAnalyze == AnalyzeInit /\ [][AnalyzeNext]_vars

(***************************************************************************)
(* The pixels a frame leaves in its textures.  Textures hold 8-bit         *)
(* channels (UNSIGNED_BYTE, rgba8unorm); the images are opaque, and a draw *)
(* covers its whole output with one sample per pixel taken at the pixel's  *)
(* own position.  Only the programs below are given here.                  *)
(***************************************************************************)
\* What a rgba8unorm texture keeps of a shader output: the value clamped to
\* 0..1, as the nearest of the 256 levels.
Store(f) == Round(FracMul(clamp01(f), <<255, 1>>))

\* saturationFragment / contrastFragment: one row of uMatrix applied to the
\* sample c = <<r, g, b, a>>.
MatrixRow(m, row, c) ==
  FracAdd(FracAdd(FracAdd(FracMul(m[5 * row + 1], c[1]), FracMul(m[5 * row + 2], c[2])),
                  FracAdd(FracMul(m[5 * row + 3], c[3]), FracMul(m[5 * row + 4], c[4]))),
          m[5 * row + 5])

\* The draw writes the colour it samples.  The pass program copies its
\* sample; the blur program with uSize 0 averages 61 samples of the same
\* texel; with an amount of 0 the brightness program adds 0 * sin(c * PI),
\* the vignette program multiplies by mix(1, vignette, 0) and the grain
\* program adds noise * 0.
Copies(draw) ==
  \/ draw.program = "pass"
  \/ draw.program = "blur" /\ draw.params[1][1] = 0 /\ draw.params[2][1] = 0
  \/ draw.program \in {"brightness", "vignette"} /\ draw.params[1][1] = 0
  \/ draw.program = "grain" /\ draw.params[3][1] = 0

\* The colour a draw writes where it samples the opaque colour <<r, g, b>>.
Shade(draw, rgb) ==
  CASE Copies(draw) -> rgb
    [] draw.program \in {"saturation", "contrast"} ->
         LET c == <<<<rgb[1], 255>>, <<rgb[2], 255>>, <<rgb[3], 255>>, <<1, 1>>>>
         IN <<Store(MatrixRow(draw.params, 0, c)), Store(MatrixRow(draw.params, 1, c)),
              Store(MatrixRow(draw.params, 2, c))>>

ShadeRun(draw, run) ==
  LET out == Shade(draw, <<run.r, run.g, run.b>>)
  IN [n |-> run.n, r |-> out[1], g |-> out[2], b |-> out[3]]

\* The draws of a frame with what each uploads.
Draws(kind, frame) ==
  [i \in 1..Len(frame) |->
     [program |-> frame[i].program, input |-> frame[i].input,
      output |-> frame[i].output,
      params |-> IF kind = "webgl" THEN GLParams(frame[i]) ELSE GPUParams(frame[i])]]

\* The textures of a backend that holds the image, before its first frame.
Textures(imageData) ==
  [source |-> imageData.data,
   target0 |-> Blank(<<imageData.width, imageData.height>>).data,
   target1 |-> Blank(<<imageData.width, imageData.height>>).data,
   canvas |-> Blank(<<imageData.width, imageData.height>>).data]

\* The textures after the draws, each reading its input as the draws before
\* it left it and replacing its output.
RECURSIVE Rasterize(_, _)
Rasterize(draws, tex) ==
  IF draws = <<>> THEN tex
  ELSE LET d == Head(draws)
       IN Rasterize(Tail(draws),
                    [tex EXCEPT ![d.output] =
                       [i \in 1..Len(tex[d.input]) |-> ShadeRun(d, tex[d.input][i])]])

\* The same for any program, with the content of a texture given by the
\* draws that made it from the image: <<>> for the image itself, Cleared
\* first for a texture that was never drawn to.
Cleared == [program |-> "clear", params |-> <<>>]

Unrendered ==
  [source |-> <<>>, target0 |-> <<Cleared>>, target1 |-> <<Cleared>>,
   canvas |-> <<Cleared>>]

RECURSIVE Applied(_, _)
Applied(draws, tex) ==
  IF draws = <<>> THEN tex
  ELSE LET d == Head(draws)
       IN Applied(Tail(draws),
                  [tex EXCEPT ![d.output] =
                     IF Copies(d) THEN tex[d.input]
                     ELSE Append(tex[d.input], [program |-> d.program, params |-> d.params])])

(***************************************************************************)
(* Two backends used directly, on the same image and settings              *)
(***************************************************************************)
RenderInit ==
  /\ \/ testSettings = defaultSettings
     \/ \E calls \in [1..MaxSetCalls -> FieldNames \X (SettingValues \ {0})] :
          testSettings = ApplyCalls(defaultSettings, calls)
  /\ testSize \in ImageSizes
  /\ glFrame = <<>>
  /\ gpuFrame = <<>>
  /\ NoDirectBackend
  /\ NoProcessor

\* render(testSettings) called on a WebGLBackend and on a WebGPUBackend that
\* both hold the image
TestRender ==
  /\ glFrame = <<>> /\ gpuFrame = <<>>
  /\ glFrame' = WebGLDrawFrame(testSize[1], testSize[2], testSettings).passes
  /\ gpuFrame' = WebGPUDrawFrame(GPUResources(testSize[1], testSize[2]), testSettings).passes
  /\ UNCHANGED <<testSettings, testSize, directVars, envVars, procVars>>

\* WebGPUBackend.getImageDataAsync() after the render: the copy of
\* targets[0].texture, as the draws of the frame left it.
GetImageDataAsync ==
  /\ gpuFrame # <<>> /\ returned = <<>>
  /\ returned' = <<Applied(Draws("webgpu", gpuFrame), Unrendered).target0>>
  /\ lastOp' = Op("getImageDataAsync", 0, "none")
  /\ UNCHANGED <<renderVars, envVars, canvasContext, backend, backendType, imageLoaded,
                 initPromise, settings, objs, inits, loads, disposed>>

RenderNext == TestRender \/ GetImageDataAsync

SpecRender == RenderInit /\ [][RenderNext]_vars

(***************************************************************************)
(* A backend that renders an image with a saturation setting               *)
(***************************************************************************)
\* width and height of the images: four pixels
ShadeSizes == {<<2, 2>>}

\* settings.saturation, in hundredths
ShadeSaturations == {-10000, -5000, 5000}

ShadeInit ==
  /\ \E size \in ShadeSizes, k \in 0..MaxMinority, minor \in Colours, major \in Colours :
       /\ testSize = size
       /\ pixels = [neutral |-> Image(size, k, minor, major), graded |-> Blank(size)]
  /\ \E v \in ShadeSaturations :
       testSettings = [defaultSettings EXCEPT !.saturation = v]
  /\ glFrame = <<>>
  /\ gpuFrame = <<>>
  /\ NoDirectBackend
  /\ webgpuSupported = TRUE /\ webglSupported = TRUE /\ preferred = "undefined"
  /\ constructed = FALSE
  /\ canvasContext = "none" /\ backend = 0 /\ backendType = "none"
  /\ imageLoaded = FALSE /\ initPromise = 0 /\ settings = defaultSettings
  /\ objs = <<>> /\ inits = <<>> /\ loads = <<>> /\ lastOp = NoOp
  /\ returned = <<>> /\ disposed = FALSE

\* render(testSettings) on a backend of the kind that holds the image
\* pixels.neutral, followed by a readback of the canvas into pixels.graded.
ShadeRender(kind) ==
  /\ glFrame = <<>> /\ gpuFrame = <<>>
  /\ glFrame' = IF kind = "webgl"
                THEN WebGLDrawFrame(testSize[1], testSize[2], testSettings).passes
                ELSE <<>>
  /\ gpuFrame' = IF kind = "webgpu"
                 THEN WebGPUDrawFrame(GPUResources(testSize[1], testSize[2]), testSettings).passes
                 ELSE <<>>
  /\ pixels' = [pixels EXCEPT !.graded.data =
                  Rasterize(Draws(kind, IF kind = "webgl" THEN glFrame' ELSE gpuFrame'),
                            Textures(pixels.neutral)).canvas]
  /\ UNCHANGED <<testSettings, testSize, directVars, webgpuSupported, webglSupported,
                 preferred, constructed, procVars>>

ShadeNext == \E kind \in {"webgl", "webgpu"} : ShadeRender(kind)

SpecShade == ShadeInit /\ [][ShadeNext]_vars

(***************************************************************************)
(* Calls on a backend used directly (SpecBackend)                          *)
(***************************************************************************)
\* What makes a render call fail: nothing, or the GPU work of pass `at`
\* failing without an exception (WebGL records an error flag, WebGPU reports
\* a validation error or a lost device asynchronously), or a call of that
\* pass throwing.  The passes tried are the first and the sixth, which is
\* the final blit of the default settings.
RenderFaults ==
  {[at |-> 0, mode |-> "none"]} \cup [at : {1, 6}, mode : {"flagged", "throws"}]

\* The draws drawFrame issues under the fault: all of them up to the pass
\* that throws; temp marks a draw for which runPass created a uniform buffer.
Issue(kind, passes, fault) ==
  [i \in 1..(IF fault.mode = "throws" THEN Min(fault.at, Len(passes)) ELSE Len(passes)) |->
     [effect |-> passes[i].effect, output |-> passes[i].output,
      ok |-> i # fault.at,
      temp |-> IF kind = "webgpu"
               THEN passes[i].program \notin {"pass", "blacks"} ELSE FALSE]]

\* A drawFrame that allocates a new pair of render targets.
LeftByFrameWithNewTargets(kind, gen, draws) ==
  {Id("texture", Targets[1], "frame", gen), Id("texture", Targets[2], "frame", gen)}

\* The objects a frame creates and does not release: the uniform buffer of a
\* WebGPU pass that threw before uniformBuffer.destroy().
LeftByFrame(kind, gen, draws) ==
  IF draws # <<>> /\ ~draws[Len(draws)].ok /\ draws[Len(draws)].temp
     /\ draws[Len(draws)].output # "canvas"
  THEN {Id("buffer", "uniformBuffer", "", gen)}
  ELSE {}

\* WebGLBackend.init() / WebGPUBackend.init(), succeeding
BackendInitCall ==
  /\ bk.kind # "none" /\ ~bk.context
  /\ bk' = [bk EXCEPT !.context = TRUE]
  /\ bkOp' = Call("init", "none", 0, 0)
  /\ UNCHANGED <<live, serial, visible, issued>>

\* The objects of the resources record that disposeResources releases at the
\* start of a load.
ReleasedByLoad ==
  IF bk.resources = <<>> THEN {}
  ELSE Released(ReleaseOrder(bk.kind, bk.resources[1]), 0)

\* WebGLBackend.loadFromImage / loadFromImageData with creation call fault
\* failing
GLLoadCall(size, fault) ==
  /\ bk.kind = "webgl" /\ serial < MaxBackendLoads
  /\ serial' = serial + 1
  /\ visible' = BlankCanvas
  /\ issued' = <<>>
  /\ IF fault = 0
     THEN /\ bk' = [bk EXCEPT !.context = TRUE, !.size = size, !.renders = 0,
                              !.resources = <<NewResources(size, GLCreationOrder(serial'))>>]
          /\ live' = (live \ ReleasedByLoad) \cup bk'.resources[1].objects
          /\ bkOp' = Call("load", "none", 0, 0)
     ELSE /\ bk' = [bk EXCEPT !.context = TRUE, !.size = size, !.renders = 0,
                              !.resources = <<>>]
          /\ live' = (live \ ReleasedByLoad) \cup CreatedBefore(GLCreationOrder(serial'), fault)
          /\ bkOp' = Call("load", GLCreationError(GLCreationOrder(serial')[fault]), 0, 0)

\* WebGPUBackend.loadFromImage (fromData false) / loadFromImageData
GPULoadCall(size, fromData, fault) ==
  /\ bk.kind = "webgpu" /\ serial < MaxBackendLoads
  /\ fault = "getImageData" => ~fromData
  /\ serial' = serial + 1
  /\ IF ~bk.context
     THEN /\ bkOp' = Call("load", "WebGPU not initialized", 0, 0)
          /\ UNCHANGED <<bk, live, visible, issued>>
     ELSE /\ visible' = BlankCanvas
          /\ issued' = <<>>
          /\ bk' = [bk EXCEPT !.size = size, !.renders = 0,
                              !.resources = IF fault # "none" THEN <<>>
                                            ELSE <<NewResources(size, GPUCreationOrder(serial'))>>]
          /\ live' = (live \ ReleasedByLoad)
                       \cup (IF fault = "getContext" THEN {}
                             ELSE IF fault = "getImageData"
                             THEN {GPUCreationOrder(serial')[1]}
                             ELSE bk'.resources[1].objects)
          /\ bkOp' = Call("load", IF fault = "getContext" THEN "Failed to get WebGPU context"
                                ELSE IF fault = "getImageData" THEN "SecurityError"
                                ELSE "none", 0, 0)

\* render(settings) of either backend under the fault.  Draws on a resources
\* record of which objects have been released fail from the first pass on.
BackendRenderCall(s, fault) ==
  /\ bk.kind # "none" /\ bk.renders < MaxRenders
  /\ IF bk.resources = <<>>
     THEN /\ fault.at = 0
          /\ bkOp' = Call("render", "none", 0, 0)
          /\ issued' = <<>>
          /\ UNCHANGED <<bk, live, visible>>
     ELSE /\ (~(bk.resources[1].objects \subseteq live)) => (fault.at = 1 /\ fault.mode = "flagged")
          /\ issued' = Issue(bk.kind,
                             IF bk.kind = "webgl"
                             THEN WebGLDrawFrame(bk.resources[1].width,
                                                 bk.resources[1].height, s).passes
                             ELSE WebGPUDrawFrame(GPUResources(bk.resources[1].width,
                                                               bk.resources[1].height), s).passes,
                             fault)
          /\ fault.at <= Len(issued')
          /\ bk' = [bk EXCEPT !.renders = @ + 1]
          /\ live' = live \cup LeftByFrame(bk.kind, bk.resources[1].gen, issued')
          /\ bkOp' = Call("render", IF fault.mode = "throws" THEN "exception" ELSE "none", fault.at, Len(issued'))
          /\ visible' = IF fault.at = 0
                        THEN [look |-> "frame", gen |-> bk.resources[1].gen, settings |-> s]
                        ELSE IF fault.mode = "throws" \/ issued'[fault.at].output = "canvas"
                        THEN visible
                        ELSE [look |-> "undefined", gen |-> bk.resources[1].gen,
                              settings |-> s]
  /\ UNCHANGED serial

\* dispose() of either backend, with release call fault throwing
BackendDisposeCall(fault) ==
  /\ bk.kind # "none"
  /\ IF bk.resources = <<>>
     THEN /\ fault = 0
          /\ bk' = [bk EXCEPT !.context = FALSE]
          /\ bkOp' = Call("dispose", "none", 0, 0)
          /\ UNCHANGED live
     ELSE /\ fault <= Len(ReleaseOrder(bk.kind, bk.resources[1]))
          /\ live' = live \ Released(ReleaseOrder(bk.kind, bk.resources[1]), fault)
          /\ bk' = IF fault = 0 THEN [bk EXCEPT !.context = FALSE, !.resources = <<>>]
                   ELSE bk
          /\ bkOp' = Call("dispose", IF fault = 0 THEN "none" ELSE "exception", fault, 0)
  /\ UNCHANGED <<serial, visible, issued>>

\* new WebGLBackend(canvas) or new WebGPUBackend(canvas)
BackendInit ==
  /\ \E kind \in {"webgl", "webgpu"} : bk = DirectBackend(kind)
  /\ live = {} /\ serial = 0 /\ visible = BlankCanvas /\ issued = <<>> /\ bkOp = NoCall
  /\ testSettings = defaultSettings /\ testSize \in ImageSizes
  /\ glFrame = <<>> /\ gpuFrame = <<>>
  /\ NoProcessor

BackendNext ==
  \/ BackendInitCall
       /\ UNCHANGED <<testSettings, testSize, glFrame, gpuFrame, envVars, procVars>>
  \/ \E size \in BackendSizes, fault \in GLLoadFaults :
       GLLoadCall(size, fault)
         /\ UNCHANGED <<testSettings, testSize, glFrame, gpuFrame, envVars, procVars>>
  \/ \E size \in BackendSizes, fromData \in BOOLEAN, fault \in GPULoadFaults :
       GPULoadCall(size, fromData, fault)
         /\ UNCHANGED <<testSettings, testSize, glFrame, gpuFrame, envVars, procVars>>
  \/ \E s \in BackendSettings, fault \in RenderFaults :
       BackendRenderCall(s, fault)
         /\ UNCHANGED <<testSettings, testSize, glFrame, gpuFrame, envVars, procVars>>
  \/ \E fault \in ReleaseFaults :
       BackendDisposeCall(fault)
         /\ UNCHANGED <<testSettings, testSize, glFrame, gpuFrame, envVars, procVars>>

SpecBackend == BackendInit /\ [][BackendNext]_vars

(***************************************************************************)
(* Properties of the pass schedule (checked under SpecRender)              *)
(***************************************************************************)
\* The catalog of draws in the order claimed.
Catalog ==
  <<"vibrance", "saturation", "temperature", "tint", "hue", "brightness",
    "exposure", "contrast", "blacks", "whites", "highlights", "shadows",
    "dehaze", "bloom", "glamour", "clarity", "sharpen", "smooth", "blurH",
    "blurV", "vignette", "grain", "pass">>

CatalogIndex(e) == CHOOSE i \in 1..Len(Catalog) : Catalog[i] = e

CatalogNames == {Catalog[k] : k \in 1..Len(Catalog)}

Executed(frame, e) == \E i \in 1..Len(frame) : frame[i].effect = e

PassOf(frame, e) == frame[CHOOSE i \in 1..Len(frame) : frame[i].effect = e]

\* P of every frame rendered so far in this state.
EveryFrame(P(_)) ==
  /\ glFrame # <<>> => P(glFrame)
  /\ gpuFrame # <<>> => P(gpuFrame)

InCatalogOrder(frame) ==
  /\ \A i \in 1..Len(frame) : frame[i].effect \in CatalogNames
  /\ \A i \in 1..(Len(frame) - 1) :
       CatalogIndex(frame[i].effect) < CatalogIndex(frame[i + 1].effect)

BlurAdjacent(frame) ==
  \A i \in 1..Len(frame) :
    /\ frame[i].effect = "blurH" => i < Len(frame) /\ frame[i + 1].effect = "blurV"
    /\ frame[i].effect = "blurV" => i > 1 /\ frame[i - 1].effect = "blurH"

FinalBlitLast(frame) ==
  /\ frame[Len(frame)].effect = "pass"
  /\ frame[Len(frame)].output = "canvas"
  /\ \A i \in 1..(Len(frame) - 1) :
       frame[i].effect # "pass" /\ frame[i].output # "canvas"

\* C1: in every render call on either backend the draws issued form a
\* subsequence of the catalog order, the two blur draws are adjacent
\* (horizontal, then vertical) and the final blit is the last draw.
C1_CatalogOrder ==
  LET P(fr) == InCatalogOrder(fr) /\ BlurAdjacent(fr) /\ FinalBlitLast(fr)
  IN EveryFrame(P)

\* Both backends have rendered a record with two thresholded effects active.
C1_Witness ==
  /\ glFrame # <<>> /\ gpuFrame # <<>>
  /\ Executed(glFrame, "contrast") /\ Executed(glFrame, "blacks")
  /\ Executed(gpuFrame, "contrast") /\ Executed(gpuFrame, "blacks")

ThresholdBipolar ==
  {"vibrance", "saturation", "temperature", "tint", "hue", "exposure",
   "contrast", "blacks", "whites", "highlights", "shadows", "clarity"}

\* C2: each bipolar effect with a skip threshold is drawn in a render call
\* if and only if abs(value) > 0.5.
C2_BipolarThreshold ==
  LET P(fr) == \A e \in ThresholdBipolar :
                 Executed(fr, e) <=> Abs(testSettings[e]) > 50
  IN EveryFrame(P)

\* A frame with one thresholded effect at -0.5 (skipped) and one at -0.51.
C2_Witness ==
  /\ glFrame # <<>> /\ gpuFrame # <<>>
  /\ \E e, g \in ThresholdBipolar :
       /\ testSettings[e] = -50 /\ ~Executed(gpuFrame, e)
       /\ testSettings[g] = -51 /\ Executed(gpuFrame, g) /\ Executed(glFrame, g)

ClaimedDivisor(e) ==
  CASE e = "vibrance" -> 100
    [] e = "temperature" -> 500
    [] e = "exposure" -> 100
    [] e = "whites" -> 400
    [] e = "hue" -> 200
    [] e = "grain" -> 800

\* C5: every draw of vibrance, temperature, exposure, whites, hue and grain
\* uploads as its amount the raw settings value divided by 100, 500, 100,
\* 400, 200 and 800, on either backend and whatever the other fields are.
C5_Divisors ==
  \A e \in {"vibrance", "temperature", "exposure", "whites", "hue", "grain"} :
    /\ (glFrame # <<>> /\ Executed(glFrame, e)) =>
         FracEq(GLAmount(PassOf(glFrame, e)), <<testSettings[e], 100 * ClaimedDivisor(e)>>)
    /\ (gpuFrame # <<>> /\ Executed(gpuFrame, e)) =>
         FracEq(GPUAmount(PassOf(gpuFrame, e)), <<testSettings[e], 100 * ClaimedDivisor(e)>>)

\* Both backends have drawn whites and grain with values other than 0.
C5_Witness ==
  /\ glFrame # <<>> /\ gpuFrame # <<>>
  /\ testSettings["whites"] = -51 /\ testSettings["grain"] = 51
  /\ Executed(glFrame, "whites") /\ Executed(gpuFrame, "whites")

Bipolar == ThresholdBipolar \cup {"brightness", "vignette"}

\* The frame a backend draws for the current record with field e set to 0.
SameAsAtZero(e) ==
  LET zero == Merge(testSettings, [x \in {e} |-> 0])
  IN /\ glFrame # <<>> =>
          glFrame = WebGLDrawFrame(testSize[1], testSize[2], zero).passes
     /\ gpuFrame # <<>> =>
          gpuFrame = WebGPUDrawFrame(GPUResources(testSize[1], testSize[2]), zero).passes

\* C6 as stated: for every bipolar field, brightness and vignette included,
\* a value with abs(v) <= 0.5 gives the same draws with the same uploaded
\* values as the value 0.
C6_Original ==
  \A e \in Bipolar :
    (testSettings[e] # 0 /\ Abs(testSettings[e]) <= 50) => SameAsAtZero(e)

\* C6 amended: for every bipolar field that has a skip threshold (not
\* brightness, not vignette) a value with abs(v) <= 0.5 gives the same draws
\* with the same uploaded values as the value 0.
C6_NeutralBelowThreshold ==
  \A e \in ThresholdBipolar :
    (testSettings[e] # 0 /\ Abs(testSettings[e]) <= 50) => SameAsAtZero(e)

\* A thresholded field is at 0.5 and another effect is active in the frame.
C6_Witness ==
  /\ glFrame # <<>> /\ gpuFrame # <<>>
  /\ testSettings["tint"] = 50
  /\ testSettings["shadows"] = 51 /\ Executed(glFrame, "shadows")

\* C7: for every settings record the two backends submit the same sequence
\* of effect draws with the same uploaded values.
C7_BackendsAgree ==
  (glFrame # <<>> /\ gpuFrame # <<>>) => GLSchedule(glFrame) = GPUSchedule(gpuFrame)

\* Both backends have drawn a frame with a matrix and a convolution draw.
C7_Witness ==
  /\ glFrame # <<>> /\ gpuFrame # <<>>
  /\ Executed(glFrame, "saturation") /\ Executed(gpuFrame, "sharpen")

\* The k-th effect draw of a frame (k from 0) writes targets[k mod 2] and
\* samples another texture: the source for the first, the output of the
\* draw before it for every later one; no draw writes the source.
PingPong(f) ==
  \A i \in 1..(Len(f) - 1) :
    /\ f[i].output = Targets[((i - 1) % 2) + 1]
    /\ f[i].input = IF i = 1 THEN "source" ELSE f[i - 1].output
    /\ f[i].input # f[i].output
    /\ f[i].output # "source"

\* C23: in the frame of either backend every effect draw samples a texture
\* other than the one it writes, the k-th writing targets[k mod 2] and the
\* chain starting at the source, which no draw writes.
C23_PingPong == PingPong(glFrame) /\ PingPong(gpuFrame)

SkipsBetween(f) ==
  /\ Len(f) > 0
  /\ Executed(f, "vibrance") /\ Executed(f, "contrast")
  /\ ~Executed(f, "saturation") /\ ~Executed(f, "hue")
  /\ f[1].input = "source" /\ f[2].input = "target0" /\ f[3].input = "target1"

\* Both backends rendered settings that run two of the thresholded effects
\* and skip the ones between them.
C23_Witness == SkipsBetween(glFrame) /\ SkipsBetween(gpuFrame)

\* A frame has one draw to the canvas, its last, with the pass program,
\* which samples the output of the last effect draw and not the source.
OneBlit(f) ==
  Len(f) > 0 =>
    /\ Len(f) >= 2
    /\ \A i \in 1..Len(f) : f[i].output = "canvas" <=> i = Len(f)
    /\ f[Len(f)].program = "pass"
    /\ f[Len(f)].input = f[Len(f) - 1].output
    /\ f[Len(f)].input # "source"

\* drawFrame ends with the input pointer and pingIndex as its last effect
\* draw left them.
PointersKept(st) ==
  /\ st.pingIndex = Len(st.passes) - 1
  /\ st.input = st.passes[Len(st.passes) - 1].output

\* C24: the frame of either backend has exactly one draw to the canvas, the
\* last one; it samples the output of the last effect draw, never the
\* source, and advances neither pingIndex nor the input pointer.
C24_FinalBlit ==
  /\ OneBlit(glFrame) /\ OneBlit(gpuFrame)
  /\ Len(glFrame) > 0 =>
       /\ PointersKept(WebGLDrawFrame(testSize[1], testSize[2], testSettings))
       /\ PointersKept(WebGPUDrawFrame(GPUResources(testSize[1], testSize[2]),
                                       testSettings))

BlitFromTarget1(f) ==
  /\ Len(f) > 0
  /\ f[Len(f)].output = "canvas" /\ f[Len(f)].input = "target1"
  /\ f[Len(f) - 1].effect = "grain"

\* Both backends rendered a frame whose last effect draw wrote target 1,
\* which the blit samples.
C24_Witness == BlitFromTarget1(glFrame) /\ BlitFromTarget1(gpuFrame)

\* C29: getImageDataAsync() returns the image the last effect draw of the
\* frame produced, which is the one the final blit put on the canvas.
C29_AsyncReadback ==
  lastOp.op = "getImageDataAsync" =>
    returned = <<Applied(Draws("webgpu", gpuFrame), Unrendered).canvas>>

(***************************************************************************)
(* Properties of the processor's life cycle (checked under Spec)           *)
(***************************************************************************)
\* The stage of a backend object: 0 Uninitialized, 1 Initialized,
\* 2 ImageLoaded, 3 Rendered.
Stage(obj) ==
  IF ~obj.initialized /\ obj.resources = <<>> THEN 0
  ELSE IF obj.resources = <<>> THEN 1
  ELSE IF obj.frame = <<>> THEN 2
  ELSE 3

\* An image's resources are held only by an initialized backend, draws are
\* issued only on a backend whose image resources are loaded, and render()
\* or setSettings() with no image loaded issues no draw and raises no error.
Guarded ==
  /\ \A o \in 1..Len(objs) :
       /\ objs[o].resources # <<>> => objs[o].initialized
       /\ objs[o].frame # <<>> => objs[o].resources # <<>>
  /\ lastOp.draws > 0 =>
       backend # 0 /\ objs[backend].initialized /\ objs[backend].resources # <<>>
  /\ (lastOp.op \in {"render", "setSettings"} /\ ~lastOp.loadedBefore) =>
       lastOp.draws = 0 /\ lastOp.error = "none"

\* No call or callback moves a backend to an earlier stage, other than
\* dispose() (to Uninitialized) and a load that throws after releasing the
\* previous image's resources (to Initialized).
Forward ==
  \A o \in 1..Len(objs) :
    Stage(objs'[o]) < Stage(objs[o]) =>
      \/ lastOp'.op = "dispose" /\ Stage(objs'[o]) = 0
      \/ lastOp'.op = "load" /\ lastOp'.error # "none" /\ Stage(objs'[o]) = 1

\* C8: every backend moves along Uninitialized, Initialized, ImageLoaded,
\* Rendered: an image is loaded into a backend only after that backend has
\* been initialized, a draw is issued only while an image's resources are
\* loaded, render() or setSettings() before any successful load issues no
\* draw and raises no error, and no step moves a backend back a stage except
\* dispose() and a load that fails.
C8_Lifecycle == []Guarded /\ [][Forward]_vars

\* After a load that succeeded and rendered, a later load failed in the
\* backend and render() was called: it issued no draw.
C8_Witness ==
  /\ \E l \in 1..Len(loads) : loads[l].stage = "resolved"
  /\ imageLoaded /\ backend # 0
  /\ objs[backend].initialized /\ objs[backend].resources = <<>>
  /\ lastOp.op = "render" /\ lastOp.draws = 0 /\ lastOp.loadedBefore

\* C9: whenever WebGL is supported and the backend option is omitted, 'auto'
\* or 'webgpu', the constructor succeeds, a processor built where WebGPU is
\* unavailable uses WebGL, and no backend initialization ends in failure.
C9_FallsBackToWebGL ==
  (webglSupported /\ preferred \in {"undefined", "auto", "webgpu"}) =>
    /\ constructed
    /\ ~webgpuSupported => backendType = "webgl"
    /\ \A i \in 1..Len(inits) : inits[i].status # "rejected"

\* C10: whenever the processor holds a backend instance, getBackendType()
\* equals that instance's type.
C10_TypeOfInstance ==
  (constructed /\ backend # 0) => backendType = objs[backend].kind

C18_SetSettingsMerges ==
  [][lastOp'.op = "setSettings" =>
       \E p \in SettingsInputs :
         /\ \A f \in FieldNames :
              getSettings'[f] = IF f \in DOMAIN p THEN p[f] ELSE settings[f]
         /\ IF imageLoaded /\ backend # 0
            THEN /\ objs' = [objs EXCEPT ![backend] = BackendRender(objs[backend], getSettings')]
                 /\ lastOp'.draws = IF objs[backend].resources = <<>> THEN 0
                                    ELSE Len(DrawFrame(objs[backend], getSettings'))
            ELSE /\ objs' = objs
                 /\ lastOp'.draws = 0]_vars

\* Two setSettings calls on a loaded image: the second changed contrast only,
\* kept the brightness of the first, and drew a frame.
C18_Witness ==
  /\ imageLoaded /\ lastOp.op = "setSettings" /\ lastOp.draws > 0
  /\ getSettings.brightness = 2000 /\ getSettings.contrast = 0

\* Load call l was made before the last dispose(): it awaits an
\* initBackend() promise that is no longer this.initPromise.
Superseded(l) == loads[l].init # initPromise

\* C25: between two dispose() calls a backend is created and initialized
\* only by the first load call, and once more only by the fallback of that
\* call's initBackend(); a load call goes on to load its image only when its
\* initBackend() promise resolved.
C25_InitOnce ==
  /\ [][Len(objs') > Len(objs) =>
          \/ initPromise = 0 /\ initPromise' # 0
          \/ /\ initPromise # 0 /\ initPromise' = initPromise
             /\ inits[initPromise].status = "pending"
             /\ inits'[initPromise].status # "pending"]_vars
  /\ [](\A l \in 1..Len(loads) :
          loads[l].stage \in {"awaitImage", "resolved", "unsettled"} =>
            inits[loads[l].init].status = "resolved")

\* C26: a loadImage(url) call that was pending when dispose() was called
\* settles, changes no backend and does not make isLoaded() true.
C26_DisposeWhilePending ==
  [][\A l \in 1..Len(loads) :
       (loads[l].url /\ Superseded(l) /\ loads'[l].stage # loads[l].stage) =>
         /\ loads'[l].stage # "unsettled"
         /\ objs' = objs
         /\ ~imageLoaded']_vars

\* C27: the image of a loadImage(url) call is not installed once the image
\* of a loadImage(url) call issued after it has been installed.
C27_LatestWins ==
  [][\A l \in 1..Len(loads) :
       (loads[l].url /\ loads[l].stage # "resolved" /\ loads'[l].stage = "resolved") =>
         \A k \in (l + 1)..Len(loads) : loads[k].url => loads[k].stage # "resolved"]_vars

\* C28: isLoaded() is true exactly when the processor has a backend that
\* holds the resources of an image.
C28_LoadedIffHeld ==
  imageLoaded <=> (backend # 0 /\ objs[backend].resources # <<>>)

(***************************************************************************)
(* Image analysis and autoFix() (checked under SpecAnalyze)                *)
(***************************************************************************)
\* The 8-bit values with a sample in the image, and the values whose samples
\* number more than limit.
Present(imageData, v) == \E i \in 1..Len(imageData.data) :
  v \in {imageData.data[i].r, imageData.data[i].g, imageData.data[i].b}

Above(imageData, num, den) ==
  {v \in 0..255 : Present(imageData, v)
                   /\ den * Samples(imageData.data, v) > num}

Lowest(S, none) == IF S = {} THEN none ELSE CHOOSE v \in S : \A w \in S : v <= w

Highest(S, none) == IF S = {} THEN none ELSE CHOOSE v \in S : \A w \in S : v >= w

\* The image a loaded backend shows after a render of the default settings.
NeutralImage == pixels.neutral

HoldsImage == imageLoaded /\ backend # 0 /\ objs[backend].resources # <<>>

\* C19: autoFix() on a loaded image returns and installs the default settings
\* with whites = round(255 - white), blacks = round(black) and, when the
\* vibrance estimate is below 0.7, vibrance = min(round((0.7 - estimate) *
\* 100), 50), all computed from the render of the default settings; whatever
\* the settings before the call, so a second autoFix() returns the same.
C19_AutoFix ==
  [][(HoldsImage /\ lastOp'.op = "autoFix") =>
       LET levels == analyzeImageLevels(NeutralImage)
           estimate == analyzeImageVibrance(NeutralImage)
           expected ==
             [f \in FieldNames |->
                IF f = "whites" THEN 100 * Round(<<255 - levels.white, 1>>)
                ELSE IF f = "blacks" THEN 100 * Round(<<levels.black, 1>>)
                ELSE IF f = "vibrance" /\ 10 * estimate[1] < 7 * estimate[2]
                THEN 100 * Min(Round(<<100 * (7 * estimate[2] - 10 * estimate[1]),
                                       10 * estimate[2]>>), 50)
                ELSE 0]
       IN /\ lastOp'.error = "none"
          /\ returned' = <<expected>>
          /\ getSettings' = expected
          /\ (lastOp.op = "autoFix" /\ returned # <<>>) => returned' = returned]_vars

\* autoFix() returned settings with raised blacks, whites and a vibrance
\* below the cap, on a backend that holds the image.
C19_Witness ==
  /\ HoldsImage /\ lastOp.op = "autoFix" /\ lastOp.loadedBefore
  /\ returned # <<>>
  /\ returned[1].blacks > 0 /\ returned[1].whites > 0
  /\ returned[1].vibrance > 0 /\ returned[1].vibrance < 5000
  /\ getSettings = returned[1]

\* C20: analyze() returns as black the smallest and as white the largest
\* 8-bit value whose bucket holds more than 0.1% of the pixel count, black
\* lowered to 100 and white raised to 155 when beyond.
C20_Levels ==
  [][(HoldsImage /\ lastOp'.op = "analyze") =>
       LET pixelCount == NeutralImage.width * NeutralImage.height
           over == Above(NeutralImage, pixelCount, 1000)
       IN /\ returned'[1].levels.black = Min(Lowest(over, 0), 100)
          /\ returned'[1].levels.white = Max(Highest(over, 255), 155)]_vars

\* C21: the vibrance estimate analyze() returns for a loaded image lies
\* between 0 and 1, both included.
C21_VibranceInUnit ==
  (lastOp.op = "analyze" /\ lastOp.error = "none" /\ returned # <<>>) =>
    /\ returned[1].vibrance[2] > 0
    /\ returned[1].vibrance[1] >= 0
    /\ returned[1].vibrance[1] <= returned[1].vibrance[2]

\* C30: analyze() on a processor that reports an image as loaded leaves the
\* settings as they were before the call, whether it returns or throws, and
\* the last frame it renders is the one of those settings.
C30_AnalyzeRestores ==
  [][(lastOp'.op = "analyze" /\ imageLoaded /\ backend # 0) =>
       /\ getSettings' = getSettings
       /\ objs[backend].resources # <<>> =>
            objs'[backend].frame = DrawFrame(objs[backend], settings)]_vars

(***************************************************************************)
(* Pixels of a rendered frame (checked under SpecShade)                    *)
(***************************************************************************)
\* The 8-bit level nearest to 0.299 R + 0.587 G + 0.114 B of a run of pixels.
Luma(run) == Round(<<299 * run.r + 587 * run.g + 114 * run.b, 1000>>)

\* C22: a frame rendered with saturation = -100 shows every pixel with
\* R = G = B, each equal to 0.299 R + 0.587 G + 0.114 B of the pixel of the
\* image; a white image comes out white.
C22_Greyscale ==
  (glFrame \o gpuFrame # <<>> /\ testSettings.saturation = -10000) =>
    /\ Len(pixels.graded.data) = Len(pixels.neutral.data)
    /\ \A i \in 1..Len(pixels.neutral.data) :
         /\ pixels.graded.data[i].n = pixels.neutral.data[i].n
         /\ pixels.graded.data[i].r = Luma(pixels.neutral.data[i])
         /\ pixels.graded.data[i].g = Luma(pixels.neutral.data[i])
         /\ pixels.graded.data[i].b = Luma(pixels.neutral.data[i])
         /\ <<pixels.neutral.data[i].r, pixels.neutral.data[i].g, pixels.neutral.data[i].b>>
              = <<255, 255, 255>> => pixels.graded.data[i].r = 255

\* A frame rendered with saturation = -100 from an image with white pixels
\* and pixels of a colour, which came out grey.
C22_Witness ==
  /\ glFrame \o gpuFrame # <<>> /\ testSettings.saturation = -10000
  /\ \E i \in 1..Len(pixels.neutral.data) :
       /\ pixels.neutral.data[i].r = 255 /\ pixels.neutral.data[i].b = 255
       /\ pixels.graded.data[i].r = 255
  /\ \E i \in 1..Len(pixels.neutral.data) :
       /\ pixels.neutral.data[i].r # pixels.neutral.data[i].b
       /\ pixels.graded.data[i].r = pixels.graded.data[i].b
       /\ pixels.graded.data[i].r \notin {0, 255}

(***************************************************************************)
(* GPU objects and the canvas of a backend (checked under SpecBackend)     *)
(***************************************************************************)
\* The objects the current resources record of the backend holds.
Owned == IF bk.resources = <<>> THEN {} ELSE bk.resources[1].objects

\* C12: every GPU object the backend has created and not released belongs
\* to its current resources record, and the live objects are those of one
\* image.
C12_NoLeaks ==
  /\ live \subseteq Owned
  /\ \A a \in live, b \in live : a.gen = b.gen

\* C13: a render call creates and destroys no render target and leaves the
\* resources record as the load built it; every draw writes the canvas or a
\* target of the pair that record holds.
C13_TargetsAllocatedOnce ==
  [][(bkOp'.op = "render" /\ bk.resources # <<>>) =>
       /\ TargetsOf(live') = TargetsOf(live)
       /\ bk'.resources = bk.resources
       /\ \A i \in 1..Len(issued') :
            \/ issued'[i].output = "canvas"
            \/ \E id \in TargetsOf(Owned) :
                 id.role = issued'[i].output /\ id.gen = bk.resources[1].gen]_vars

\* The second render call since the load drew other settings than the
\* defaults into both targets of the pair the load allocated.
C13_Witness ==
  /\ bkOp.op = "render" /\ bkOp.failed = 0 /\ bk.renders = 2
  /\ visible.look = "frame" /\ visible.settings # defaultSettings
  /\ \A t \in {Targets[1], Targets[2]} : \E i \in 1..Len(issued) : issued[i].output = t
  /\ TargetsOf(live) = TargetsOf(Owned)
  /\ \A id \in TargetsOf(live) : id.gen = serial

\* C14 as claimed: a load of an image whose width and height equal the
\* current ones leaves the target pair in place.
C14_Original ==
  [][(bkOp'.op = "load" /\ bkOp'.error = "none" /\ bk.resources # <<>>
      /\ bk'.size = bk.size) =>
       /\ TargetsOf(bk'.resources[1].objects) = TargetsOf(bk.resources[1].objects)
       /\ TargetsOf(live') = TargetsOf(live)]_vars

\* C14: every load that succeeds allocates a new pair of targets, and
\* releases the pair of the resources record it replaces, whether or not the
\* dimensions differ.
C14_TargetsPerLoad ==
  [][(bkOp'.op = "load" /\ bkOp'.error = "none") =>
       /\ TargetsOf(bk'.resources[1].objects) \cap live = {}
       /\ TargetsOf(bk'.resources[1].objects) \subseteq live'
       /\ \A id \in TargetsOf(bk'.resources[1].objects) : id.gen = serial'
       /\ TargetsOf(Owned) \cap live' = {}]_vars

\* A second load of the same size succeeded: the pair of the first load is
\* gone and a pair of the second is live.
C14_Witness ==
  /\ bkOp.op = "load" /\ bkOp.error = "none" /\ serial = 2
  /\ bkOp.sizeBefore = bk.size
  /\ \E id \in live : id.gen = 1
  /\ \A id \in TargetsOf(live) : id.gen = 2
  /\ TargetsOf(Owned) # {} /\ TargetsOf(Owned) \subseteq live

\* C15: dispose() releases every object of the resources record and leaves
\* the backend without resources, also when one of the release calls
\* throws.
C15_DisposeReleasesAll ==
  [][(bkOp'.op = "dispose" /\ bk.resources # <<>>) =>
       /\ bk'.resources = <<>>
       /\ Released(ReleaseOrder(bk.kind, bk.resources[1]), 0) \cap live' = {}]_vars

\* C16: within a render call only the last draw, the final blit, writes the
\* canvas; a render call in which an earlier pass fails leaves the canvas
\* showing the frame of the last successful render.
C16_LastFrameKept ==
  [][bkOp'.op = "render" =>
       /\ \A i \in 1..Len(issued') : issued'[i].output = "canvas" => i = Len(issued')
       /\ (bkOp'.failed > 0 /\ visible.look = "frame"
           /\ issued'[bkOp'.failed].output # "canvas") => visible' = visible]_vars

\* C17: a render call in which a pass fails raises an error to its caller,
\* issues no later pass and no final blit.
C17_FailureSurfaced ==
  [][(bkOp'.op = "render" /\ bkOp'.failed > 0) =>
       /\ bkOp'.error # "none"
       /\ Len(issued') = bkOp'.failed
       /\ \A i \in 1..Len(issued') : issued'[i].output # "canvas" \/ ~issued'[i].ok]_vars

=============================================================================
